---- MODULE Spec2Model ----
(***************************************************************************)
(* Travel concierge backend: the keyword intent classifier of the          *)
(* orchestrator (backend/api/main.py) and the personalised profile store   *)
(* (backend/api/personalized_ai.py).                                       *)
(*                                                                         *)
(* A text is examined as a sequence of one-character strings, so that the  *)
(* Python substring test `kw in message_lower` and str.lower() are         *)
(* computed character by character.  Texts that are only stored are kept   *)
(* as strings; CharsOf spells them.                                        *)
(***************************************************************************)
EXTENDS Integers, Sequences, FiniteSets, TLC

VARIABLES
    message,        \* text handed to the orchestrator, as characters
    intent,         \* label detect_intent gave it, "none" before
    user_profiles,  \* PersonalizedTravelAI.user_profiles: user id -> UserProfile
    pkl,            \* contents of user_data/user_profiles.pkl
    json_files,     \* contents of user_data/user_<id>.json, per user id
    now,            \* datetime.now(), in days
    served,         \* number of requests served so far
    last,           \* the request served last and its outcome
    in_flight,      \* chat requests waiting for the generative call, by arrival
    voice_system,   \* what get_voice_system() returns: None or "ready"
    personalized_ai,    \* the global personalized_ai: None or "ready"
    active_connections, \* ConnectionManager.active_connections: the sockets listed
    handler             \* per websocket, its /ws/chat handler: idle, running, ended

vars ==
    <<message, intent, user_profiles, pkl, json_files, now, served, last,
      in_flight, voice_system, personalized_ai, active_connections, handler>>

\* what no request changes
fixedVars ==
    <<message, intent, now, voice_system, personalized_ai, active_connections, handler>>

(***************************************************************************)
(* Text helpers                                                            *)
(***************************************************************************)
\* the spelling of every text of the model, merged pairwise
CharsOf ==
    (((((((((("" :> <<>>) @@
             (" " :> <<" ">>)) @@
            ((" adventures? " :> <<" ", "a", "d", "v", "e", "n", "t", "u", "r", "e", "s", "?", " ">>) @@
             (" communication style guides my responses" :> <<" ", "c", "o", "m", "m", "u", "n", "i", "c", "a", "t", "i", "o", "n", " ", "s", "t", "y", "l", "e", " ", "g", "u", "i", "d", "e", "s", " ", "m", "y", " ", "r", "e", "s", "p", "o", "n", "s", "e", "s">>))) @@
           (((" dreams into a concrete plan! " :> <<" ", "d", "r", "e", "a", "m", "s", " ", "i", "n", "t", "o", " ", "a", " ", "c", "o", "n", "c", "r", "e", "t", "e", " ", "p", "l", "a", "n", "!", " ">>) @@
             (" experience just for you! " :> <<" ", "e", "x", "p", "e", "r", "i", "e", "n", "c", "e", " ", "j", "u", "s", "t", " ", "f", "o", "r", " ", "y", "o", "u", "!", " ">>)) @@
            ((" experience!" :> <<" ", "e", "x", "p", "e", "r", "i", "e", "n", "c", "e", "!">>) @@
             (" experiences that exceed expectations. " :> <<" ", "e", "x", "p", "e", "r", "i", "e", "n", "c", "e", "s", " ", "t", "h", "a", "t", " ", "e", "x", "c", "e", "e", "d", " ", "e", "x", "p", "e", "c", "t", "a", "t", "i", "o", "n", "s", ".", " ">>)))) @@
          ((((" for you. " :> <<" ", "f", "o", "r", " ", "y", "o", "u", ".", " ">>) @@
             (" options that match your preferences" :> <<" ", "o", "p", "t", "i", "o", "n", "s", " ", "t", "h", "a", "t", " ", "m", "a", "t", "c", "h", " ", "y", "o", "u", "r", " ", "p", "r", "e", "f", "e", "r", "e", "n", "c", "e", "s">>)) @@
            ((" personality: " :> <<" ", "p", "e", "r", "s", "o", "n", "a", "l", "i", "t", "y", ":", " ">>) @@
             (" traveler" :> <<" ", "t", "r", "a", "v", "e", "l", "e", "r">>))) @@
           ((("! " :> <<"!", " ">>) @@
             ("! I specialize in creating extraordinary " :> <<"!", " ", "I", " ", "s", "p", "e", "c", "i", "a", "l", "i", "z", "e", " ", "i", "n", " ", "c", "r", "e", "a", "t", "i", "n", "g", " ", "e", "x", "t", "r", "a", "o", "r", "d", "i", "n", "a", "r", "y", " ">>)) @@
            (("! I'm absolutely excited to help you discover the magic of " :> <<"!", " ", "I", "'", "m", " ", "a", "b", "s", "o", "l", "u", "t", "e", "l", "y", " ", "e", "x", "c", "i", "t", "e", "d", " ", "t", "o", " ", "h", "e", "l", "p", " ", "y", "o", "u", " ", "d", "i", "s", "c", "o", "v", "e", "r", " ", "t", "h", "e", " ", "m", "a", "g", "i", "c", " ", "o", "f", " ">>) @@
             ("! I'm here to craft the perfect " :> <<"!", " ", "I", "'", "m", " ", "h", "e", "r", "e", " ", "t", "o", " ", "c", "r", "a", "f", "t", " ", "t", "h", "e", " ", "p", "e", "r", "f", "e", "c", "t", " ">>))))) @@
         ((((("! Let me unveil the rich cultural tapestry of " :> <<"!", " ", "L", "e", "t", " ", "m", "e", " ", "u", "n", "v", "e", "i", "l", " ", "t", "h", "e", " ", "r", "i", "c", "h", " ", "c", "u", "l", "t", "u", "r", "a", "l", " ", "t", "a", "p", "e", "s", "t", "r", "y", " ", "o", "f", " ">>) @@
             ("! Let's turn your " :> <<"!", " ", "L", "e", "t", "'", "s", " ", "t", "u", "r", "n", " ", "y", "o", "u", "r", " ">>)) @@
            (("! Ready for some epic " :> <<"!", " ", "R", "e", "a", "d", "y", " ", "f", "o", "r", " ", "s", "o", "m", "e", " ", "e", "p", "i", "c", " ">>) @@
             ("!!!!" :> <<"!", "!", "!", "!">>))) @@
           ((("+" :> <<"+">>) @@
             ("," :> <<",">>)) @@
            (("/" :> <<"/">>) @@
             ("0" :> <<"0">>)))) @@
          (((("1" :> <<"1">>) @@
             ("10 days" :> <<"1", "0", " ", "d", "a", "y", "s">>)) @@
            (("10 days in May" :> <<"1", "0", " ", "d", "a", "y", "s", " ", "i", "n", " ", "M", "a", "y">>) @@
             ("2" :> <<"2">>))) @@
           ((("26-35" :> <<"2", "6", "-", "3", "5">>) @@
             ("26th" :> <<"2", "6", "t", "h">>)) @@
            (("27th" :> <<"2", "7", "t", "h">>) @@
             (("28th" :> <<"2", "8", "t", "h">>) @@
              ("29th" :> <<"2", "9", "t", "h">>))))))) @@
        (((((("3" :> <<"3">>) @@
             ("3 days" :> <<"3", " ", "d", "a", "y", "s">>)) @@
            (("30th" :> <<"3", "0", "t", "h">>) @@
             ("31st" :> <<"3", "1", "s", "t">>))) @@
           ((("4" :> <<"4">>) @@
             ("4-Star Beach Resort" :> <<"4", "-", "S", "t", "a", "r", " ", "B", "e", "a", "c", "h", " ", "R", "e", "s", "o", "r", "t">>)) @@
            (("429" :> <<"4", "2", "9">>) @@
             ("429 Resource exhausted" :> <<"4", "2", "9", " ", "R", "e", "s", "o", "u", "r", "c", "e", " ", "e", "x", "h", "a", "u", "s", "t", "e", "d">>)))) @@
          (((("5" :> <<"5">>) @@
             ("5 days" :> <<"5", " ", "d", "a", "y", "s">>)) @@
            (("5-Star Resort & Spa" :> <<"5", "-", "S", "t", "a", "r", " ", "R", "e", "s", "o", "r", "t", " ", "&", " ", "S", "p", "a">>) @@
             ("5-star" :> <<"5", "-", "s", "t", "a", "r">>))) @@
           ((("503 unavailable" :> <<"5", "0", "3", " ", "u", "n", "a", "v", "a", "i", "l", "a", "b", "l", "e">>) @@
             ("6" :> <<"6">>)) @@
            (("7" :> <<"7">>) @@
             (("7 days" :> <<"7", " ", "d", "a", "y", "s">>) @@
              ("8" :> <<"8">>)))))) @@
         ((((("9" :> <<"9">>) @@
             (": " :> <<":", " ">>)) @@
            (("A" :> <<"A">>) @@
             ("Adventure Sports Package" :> <<"A", "d", "v", "e", "n", "t", "u", "r", "e", " ", "S", "p", "o", "r", "t", "s", " ", "P", "a", "c", "k", "a", "g", "e">>))) @@
           ((("Adventure Travel Expert ready! Hey there " :> <<"A", "d", "v", "e", "n", "t", "u", "r", "e", " ", "T", "r", "a", "v", "e", "l", " ", "E", "x", "p", "e", "r", "t", " ", "r", "e", "a", "d", "y", "!", " ", "H", "e", "y", " ", "t", "h", "e", "r", "e", " ">>) @@
             ("Adventure activities" :> <<"A", "d", "v", "e", "n", "t", "u", "r", "e", " ", "a", "c", "t", "i", "v", "i", "t", "i", "e", "s">>)) @@
            (("Air India Express" :> <<"A", "i", "r", " ", "I", "n", "d", "i", "a", " ", "E", "x", "p", "r", "e", "s", "s">>) @@
             ("Alila Diwa Resort" :> <<"A", "l", "i", "l", "a", " ", "D", "i", "w", "a", " ", "R", "e", "s", "o", "r", "t">>)))) @@
          (((("Asha" :> <<"A", "s", "h", "a">>) @@
             ("Ayurveda retreats" :> <<"A", "y", "u", "r", "v", "e", "d", "a", " ", "r", "e", "t", "r", "e", "a", "t", "s">>)) @@
            (("Ayurveda treatments in Kovalam" :> <<"A", "y", "u", "r", "v", "e", "d", "a", " ", "t", "r", "e", "a", "t", "m", "e", "n", "t", "s", " ", "i", "n", " ", "K", "o", "v", "a", "l", "a", "m">>) @@
             ("B" :> <<"B">>))) @@
           ((("Bargain at local markets" :> <<"B", "a", "r", "g", "a", "i", "n", " ", "a", "t", " ", "l", "o", "c", "a", "l", " ", "m", "a", "r", "k", "e", "t", "s">>) @@
             ("Basilica of Bom Jesus" :> <<"B", "a", "s", "i", "l", "i", "c", "a", " ", "o", "f", " ", "B", "o", "m", " ", "J", "e", "s", "u", "s">>)) @@
            (("Beach hopping in North Goa" :> <<"B", "e", "a", "c", "h", " ", "h", "o", "p", "p", "i", "n", "g", " ", "i", "n", " ", "N", "o", "r", "t", "h", " ", "G", "o", "a">>) @@
             (("Beach shacks for seafood" :> <<"B", "e", "a", "c", "h", " ", "s", "h", "a", "c", "k", "s", " ", "f", "o", "r", " ", "s", "e", "a", "f", "o", "o", "d">>) @@
              ("Best Time to Visit: " :> <<"B", "e", "s", "t", " ", "T", "i", "m", "e", " ", "t", "o", " ", "V", "i", "s", "i", "t", ":", " ">>)))))))) @@
       ((((((("Bharatanatyam performances" :> <<"B", "h", "a", "r", "a", "t", "a", "n", "a", "t", "y", "a", "m", " ", "p", "e", "r", "f", "o", "r", "m", "a", "n", "c", "e", "s">>) @@
             ("Birla Planetarium" :> <<"B", "i", "r", "l", "a", " ", "P", "l", "a", "n", "e", "t", "a", "r", "i", "u", "m">>)) @@
            (("Book houseboats in advance" :> <<"B", "o", "o", "k", " ", "h", "o", "u", "s", "e", "b", "o", "a", "t", "s", " ", "i", "n", " ", "a", "d", "v", "a", "n", "c", "e">>) @@
             ("Booking" :> <<"B", "o", "o", "k", "i", "n", "g">>))) @@
           ((("Boring beach" :> <<"B", "o", "r", "i", "n", "g", " ", "b", "e", "a", "c", "h">>) @@
             ("Boring beach and too expensive" :> <<"B", "o", "r", "i", "n", "g", " ", "b", "e", "a", "c", "h", " ", "a", "n", "d", " ", "t", "o", "o", " ", "e", "x", "p", "e", "n", "s", "i", "v", "e">>)) @@
            (("Boutique Guesthouse" :> <<"B", "o", "u", "t", "i", "q", "u", "e", " ", "G", "u", "e", "s", "t", "h", "o", "u", "s", "e">>) @@
             ("Business Class - Air India" :> <<"B", "u", "s", "i", "n", "e", "s", "s", " ", "C", "l", "a", "s", "s", " ", "-", " ", "A", "i", "r", " ", "I", "n", "d", "i", "a">>)))) @@
          (((("C" :> <<"C">>) @@
             ("Candlelight dinner on beach" :> <<"C", "a", "n", "d", "l", "e", "l", "i", "g", "h", "t", " ", "d", "i", "n", "n", "e", "r", " ", "o", "n", " ", "b", "e", "a", "c", "h">>)) @@
            (("Carry light cotton clothes" :> <<"C", "a", "r", "r", "y", " ", "l", "i", "g", "h", "t", " ", "c", "o", "t", "t", "o", "n", " ", "c", "l", "o", "t", "h", "e", "s">>) @@
             ("Changed to budget-conscious based on feedback" :> <<"C", "h", "a", "n", "g", "e", "d", " ", "t", "o", " ", "b", "u", "d", "g", "e", "t", "-", "c", "o", "n", "s", "c", "i", "o", "u", "s", " ", "b", "a", "s", "e", "d", " ", "o", "n", " ", "f", "e", "e", "d", "b", "a", "c", "k">>))) @@
           ((("Changed to luxury based on feedback" :> <<"C", "h", "a", "n", "g", "e", "d", " ", "t", "o", " ", "l", "u", "x", "u", "r", "y", " ", "b", "a", "s", "e", "d", " ", "o", "n", " ", "f", "e", "e", "d", "b", "a", "c", "k">>) @@
             ("Cheap hiking please" :> <<"C", "h", "e", "a", "p", " ", "h", "i", "k", "i", "n", "g", " ", "p", "l", "e", "a", "s", "e">>)) @@
            (("Check weather and seasonal highlights" :> <<"C", "h", "e", "c", "k", " ", "w", "e", "a", "t", "h", "e", "r", " ", "a", "n", "d", " ", "s", "e", "a", "s", "o", "n", "a", "l", " ", "h", "i", "g", "h", "l", "i", "g", "h", "t", "s">>) @@
             (("Chennai" :> <<"C", "h", "e", "n", "n", "a", "i">>) @@
              ("Chettinad cuisine" :> <<"C", "h", "e", "t", "t", "i", "n", "a", "d", " ", "c", "u", "i", "s", "i", "n", "e">>)))))) @@
         ((((("Classical music concerts in December" :> <<"C", "l", "a", "s", "s", "i", "c", "a", "l", " ", "m", "u", "s", "i", "c", " ", "c", "o", "n", "c", "e", "r", "t", "s", " ", "i", "n", " ", "D", "e", "c", "e", "m", "b", "e", "r">>) @@
             ("Colonial architecture" :> <<"C", "o", "l", "o", "n", "i", "a", "l", " ", "a", "r", "c", "h", "i", "t", "e", "c", "t", "u", "r", "e">>)) @@
            (("Complete Goa Experience Package" :> <<"C", "o", "m", "p", "l", "e", "t", "e", " ", "G", "o", "a", " ", "E", "x", "p", "e", "r", "i", "e", "n", "c", "e", " ", "P", "a", "c", "k", "a", "g", "e">>) @@
             ("Conference venues" :> <<"C", "o", "n", "f", "e", "r", "e", "n", "c", "e", " ", "v", "e", "n", "u", "e", "s">>))) @@
           ((("Create a detailed day-by-day itinerary" :> <<"C", "r", "e", "a", "t", "e", " ", "a", " ", "d", "e", "t", "a", "i", "l", "e", "d", " ", "d", "a", "y", "-", "b", "y", "-", "d", "a", "y", " ", "i", "t", "i", "n", "e", "r", "a", "r", "y">>) @@
             ("Cultural Experience Curator here! Greetings " :> <<"C", "u", "l", "t", "u", "r", "a", "l", " ", "E", "x", "p", "e", "r", "i", "e", "n", "c", "e", " ", "C", "u", "r", "a", "t", "o", "r", " ", "h", "e", "r", "e", "!", " ", "G", "r", "e", "e", "t", "i", "n", "g", "s", " ">>)) @@
            (("Cultural Heritage Tour" :> <<"C", "u", "l", "t", "u", "r", "a", "l", " ", "H", "e", "r", "i", "t", "a", "g", "e", " ", "T", "o", "u", "r">>) @@
             ("D" :> <<"D">>)))) @@
          (((("Day_Of" :> <<"D", "a", "y", "_", "O", "f">>) @@
             ("Detailed itinerary planning" :> <<"D", "e", "t", "a", "i", "l", "e", "d", " ", "i", "t", "i", "n", "e", "r", "a", "r", "y", " ", "p", "l", "a", "n", "n", "i", "n", "g">>)) @@
            (("Discover the best local cuisine and food tours" :> <<"D", "i", "s", "c", "o", "v", "e", "r", " ", "t", "h", "e", " ", "b", "e", "s", "t", " ", "l", "o", "c", "a", "l", " ", "c", "u", "i", "s", "i", "n", "e", " ", "a", "n", "d", " ", "f", "o", "o", "d", " ", "t", "o", "u", "r", "s">>) @@
             ("E" :> <<"E">>))) @@
           ((("Explore local culture and traditions" :> <<"E", "x", "p", "l", "o", "r", "e", " ", "l", "o", "c", "a", "l", " ", "c", "u", "l", "t", "u", "r", "e", " ", "a", "n", "d", " ", "t", "r", "a", "d", "i", "t", "i", "o", "n", "s">>) @@
             ("Explore natural attractions and wildlife" :> <<"E", "x", "p", "l", "o", "r", "e", " ", "n", "a", "t", "u", "r", "a", "l", " ", "a", "t", "t", "r", "a", "c", "t", "i", "o", "n", "s", " ", "a", "n", "d", " ", "w", "i", "l", "d", "l", "i", "f", "e">>)) @@
            (("F" :> <<"F">>) @@
             (("Feni tasting tours" :> <<"F", "e", "n", "i", " ", "t", "a", "s", "t", "i", "n", "g", " ", "t", "o", "u", "r", "s">>) @@
              ("Filter coffee culture" :> <<"F", "i", "l", "t", "e", "r", " ", "c", "o", "f", "f", "e", "e", " ", "c", "u", "l", "t", "u", "r", "e">>))))))) @@
        (((((("Find exclusive experiences and VIP services" :> <<"F", "i", "n", "d", " ", "e", "x", "c", "l", "u", "s", "i", "v", "e", " ", "e", "x", "p", "e", "r", "i", "e", "n", "c", "e", "s", " ", "a", "n", "d", " ", "V", "I", "P", " ", "s", "e", "r", "v", "i", "c", "e", "s">>) @@
             ("Find historical sites and museums" :> <<"F", "i", "n", "d", " ", "h", "i", "s", "t", "o", "r", "i", "c", "a", "l", " ", "s", "i", "t", "e", "s", " ", "a", "n", "d", " ", "m", "u", "s", "e", "u", "m", "s">>)) @@
            (("Find the most Instagram-worthy spots" :> <<"F", "i", "n", "d", " ", "t", "h", "e", " ", "m", "o", "s", "t", " ", "I", "n", "s", "t", "a", "g", "r", "a", "m", "-", "w", "o", "r", "t", "h", "y", " ", "s", "p", "o", "t", "s">>) @@
             ("Find unique off-the-beaten-path experiences" :> <<"F", "i", "n", "d", " ", "u", "n", "i", "q", "u", "e", " ", "o", "f", "f", "-", "t", "h", "e", "-", "b", "e", "a", "t", "e", "n", "-", "p", "a", "t", "h", " ", "e", "x", "p", "e", "r", "i", "e", "n", "c", "e", "s">>))) @@
           ((("G" :> <<"G">>) @@
             ("General" :> <<"G", "e", "n", "e", "r", "a", "l">>)) @@
            (("Goa" :> <<"G", "o", "a">>) @@
             ("Goa State Museum" :> <<"G", "o", "a", " ", "S", "t", "a", "t", "e", " ", "M", "u", "s", "e", "u", "m">>)))) @@
          (((("Government Museum explorations" :> <<"G", "o", "v", "e", "r", "n", "m", "e", "n", "t", " ", "M", "u", "s", "e", "u", "m", " ", "e", "x", "p", "l", "o", "r", "a", "t", "i", "o", "n", "s">>) @@
             ("Guindy National Park" :> <<"G", "u", "i", "n", "d", "y", " ", "N", "a", "t", "i", "o", "n", "a", "l", " ", "P", "a", "r", "k">>)) @@
            (("H" :> <<"H">>) @@
             ("Hello, where to?" :> <<"H", "e", "l", "l", "o", ",", " ", "w", "h", "e", "r", "e", " ", "t", "o", "?">>))) @@
           ((("Here is your plan" :> <<"H", "e", "r", "e", " ", "i", "s", " ", "y", "o", "u", "r", " ", "p", "l", "a", "n">>) @@
             ("Hill station retreats" :> <<"H", "i", "l", "l", " ", "s", "t", "a", "t", "i", "o", "n", " ", "r", "e", "t", "r", "e", "a", "t", "s">>)) @@
            (("Houseboat cruise in Alleppey backwaters" :> <<"H", "o", "u", "s", "e", "b", "o", "a", "t", " ", "c", "r", "u", "i", "s", "e", " ", "i", "n", " ", "A", "l", "l", "e", "p", "p", "e", "y", " ", "b", "a", "c", "k", "w", "a", "t", "e", "r", "s">>) @@
             (("Houseboat honeymoon" :> <<"H", "o", "u", "s", "e", "b", "o", "a", "t", " ", "h", "o", "n", "e", "y", "m", "o", "o", "n">>) @@
              ("I" :> <<"I">>)))))) @@
         ((((("I focus on " :> <<"I", " ", "f", "o", "c", "u", "s", " ", "o", "n", " ">>) @@
             ("I know you love: " :> <<"I", " ", "k", "n", "o", "w", " ", "y", "o", "u", " ", "l", "o", "v", "e", ":", " ">>)) @@
            (("I remember you're a " :> <<"I", " ", "r", "e", "m", "e", "m", "b", "e", "r", " ", "y", "o", "u", "'", "r", "e", " ", "a", " ">>) @@
             ("IT corridor networking" :> <<"I", "T", " ", "c", "o", "r", "r", "i", "d", "o", "r", " ", "n", "e", "t", "w", "o", "r", "k", "i", "n", "g">>))) @@
           ((("IndiGo - Economy" :> <<"I", "n", "d", "i", "G", "o", " ", "-", " ", "E", "c", "o", "n", "o", "m", "y">>) @@
             ("Insider Tips: " :> <<"I", "n", "s", "i", "d", "e", "r", " ", "T", "i", "p", "s", ":", " ">>)) @@
            (("Inspiration" :> <<"I", "n", "s", "p", "i", "r", "a", "t", "i", "o", "n">>) @@
             ("J" :> <<"J">>)))) @@
          (((("Jewish Synagogue in Kochi" :> <<"J", "e", "w", "i", "s", "h", " ", "S", "y", "n", "a", "g", "o", "g", "u", "e", " ", "i", "n", " ", "K", "o", "c", "h", "i">>) @@
             ("K" :> <<"K">>)) @@
            (("Kapaleeshwarar Temple visits" :> <<"K", "a", "p", "a", "l", "e", "e", "s", "h", "w", "a", "r", "a", "r", " ", "T", "e", "m", "p", "l", "e", " ", "v", "i", "s", "i", "t", "s">>) @@
             ("Kathakali dance performances" :> <<"K", "a", "t", "h", "a", "k", "a", "l", "i", " ", "d", "a", "n", "c", "e", " ", "p", "e", "r", "f", "o", "r", "m", "a", "n", "c", "e", "s">>))) @@
           ((("Kerala" :> <<"K", "e", "r", "a", "l", "a">>) @@
             ("Kerala heritage tour" :> <<"K", "e", "r", "a", "l", "a", " ", "h", "e", "r", "i", "t", "a", "g", "e", " ", "t", "o", "u", "r">>)) @@
            (("Kumarakom Lake Resort" :> <<"K", "u", "m", "a", "r", "a", "k", "o", "m", " ", "L", "a", "k", "e", " ", "R", "e", "s", "o", "r", "t">>) @@
             (("L" :> <<"L">>) @@
              ("Learn a few Tamil greetings" :> <<"L", "e", "a", "r", "n", " ", "a", " ", "f", "e", "w", " ", "T", "a", "m", "i", "l", " ", "g", "r", "e", "e", "t", "i", "n", "g", "s">>))))))))) @@
      (((((((("Learn basic Malayalam phrases" :> <<"L", "e", "a", "r", "n", " ", "b", "a", "s", "i", "c", " ", "M", "a", "l", "a", "y", "a", "l", "a", "m", " ", "p", "h", "r", "a", "s", "e", "s">>) @@
             ("Let's continue planning! I'm learning about your preferences with every conversation. " :> <<"L", "e", "t", "'", "s", " ", "c", "o", "n", "t", "i", "n", "u", "e", " ", "p", "l", "a", "n", "n", "i", "n", "g", "!", " ", "I", "'", "m", " ", "l", "e", "a", "r", "n", "i", "n", "g", " ", "a", "b", "o", "u", "t", " ", "y", "o", "u", "r", " ", "p", "r", "e", "f", "e", "r", "e", "n", "c", "e", "s", " ", "w", "i", "t", "h", " ", "e", "v", "e", "r", "y", " ", "c", "o", "n", "v", "e", "r", "s", "a", "t", "i", "o", "n", ".", " ">>)) @@
            (("Local dining and entertainment" :> <<"L", "o", "c", "a", "l", " ", "d", "i", "n", "i", "n", "g", " ", "a", "n", "d", " ", "e", "n", "t", "e", "r", "t", "a", "i", "n", "m", "e", "n", "t">>) @@
             ("Loved the premium rooms" :> <<"L", "o", "v", "e", "d", " ", "t", "h", "e", " ", "p", "r", "e", "m", "i", "u", "m", " ", "r", "o", "o", "m", "s">>))) @@
           ((("Luxury Travel Specialist here! Welcome " :> <<"L", "u", "x", "u", "r", "y", " ", "T", "r", "a", "v", "e", "l", " ", "S", "p", "e", "c", "i", "a", "l", "i", "s", "t", " ", "h", "e", "r", "e", "!", " ", "W", "e", "l", "c", "o", "m", "e", " ">>) @@
             ("Luxury culture tour" :> <<"L", "u", "x", "u", "r", "y", " ", "c", "u", "l", "t", "u", "r", "e", " ", "t", "o", "u", "r">>)) @@
            (("M" :> <<"M">>) @@
             ("Marina Beach sunrise walks" :> <<"M", "a", "r", "i", "n", "a", " ", "B", "e", "a", "c", "h", " ", "s", "u", "n", "r", "i", "s", "e", " ", "w", "a", "l", "k", "s">>)))) @@
          (((("Marina Beach sunsets" :> <<"M", "a", "r", "i", "n", "a", " ", "B", "e", "a", "c", "h", " ", "s", "u", "n", "s", "e", "t", "s">>) @@
             ("Mattancherry Palace" :> <<"M", "a", "t", "t", "a", "n", "c", "h", "e", "r", "r", "y", " ", "P", "a", "l", "a", "c", "e">>)) @@
            (("Multi-Agent System" :> <<"M", "u", "l", "t", "i", "-", "A", "g", "e", "n", "t", " ", "S", "y", "s", "t", "e", "m">>) @@
             ("Museums" :> <<"M", "u", "s", "e", "u", "m", "s">>))) @@
           ((("Must-Experience in " :> <<"M", "u", "s", "t", "-", "E", "x", "p", "e", "r", "i", "e", "n", "c", "e", " ", "i", "n", " ">>) @@
             ("N" :> <<"N">>)) @@
            (("Nice trip" :> <<"N", "i", "c", "e", " ", "t", "r", "i", "p">>) @@
             ("Night markets in Anjuna" :> <<"N", "i", "g", "h", "t", " ", "m", "a", "r", "k", "e", "t", "s", " ", "i", "n", " ", "A", "n", "j", "u", "n", "a">>))))) @@
         ((((("None" :> <<"N", "o", "n", "e">>) @@
             ("November to February" :> <<"N", "o", "v", "e", "m", "b", "e", "r", " ", "t", "o", " ", "F", "e", "b", "r", "u", "a", "r", "y">>)) @@
            (("November to March" :> <<"N", "o", "v", "e", "m", "b", "e", "r", " ", "t", "o", " ", "M", "a", "r", "c", "h">>) @@
             ("O" :> <<"O">>))) @@
           ((("October to March" :> <<"O", "c", "t", "o", "b", "e", "r", " ", "t", "o", " ", "M", "a", "r", "c", "h">>) @@
             ("P" :> <<"P">>)) @@
            (("Parasailing at Calangute" :> <<"P", "a", "r", "a", "s", "a", "i", "l", "i", "n", "g", " ", "a", "t", " ", "C", "a", "l", "a", "n", "g", "u", "t", "e">>) @@
             ("Park Hyatt Goa Resort" :> <<"P", "a", "r", "k", " ", "H", "y", "a", "t", "t", " ", "G", "o", "a", " ", "R", "e", "s", "o", "r", "t">>)))) @@
          (((("Perfect for your " :> <<"P", "e", "r", "f", "e", "c", "t", " ", "f", "o", "r", " ", "y", "o", "u", "r", " ">>) @@
             ("Periyar Wildlife Sanctuary" :> <<"P", "e", "r", "i", "y", "a", "r", " ", "W", "i", "l", "d", "l", "i", "f", "e", " ", "S", "a", "n", "c", "t", "u", "a", "r", "y">>)) @@
            (("Personalized Fallback Agent" :> <<"P", "e", "r", "s", "o", "n", "a", "l", "i", "z", "e", "d", " ", "F", "a", "l", "l", "b", "a", "c", "k", " ", "A", "g", "e", "n", "t">>) @@
             ("Personalized Gemini AI" :> <<"P", "e", "r", "s", "o", "n", "a", "l", "i", "z", "e", "d", " ", "G", "e", "m", "i", "n", "i", " ", "A", "I">>))) @@
           ((("Place" :> <<"P", "l", "a", "c", "e">>) @@
             ("Plan 10 days in Goa in May" :> <<"P", "l", "a", "n", " ", "1", "0", " ", "d", "a", "y", "s", " ", "i", "n", " ", "G", "o", "a", " ", "i", "n", " ", "M", "a", "y">>)) @@
            (("Planning" :> <<"P", "l", "a", "n", "n", "i", "n", "g">>) @@
             (("Poi" :> <<"P", "o", "i">>) @@
              ("Portuguese heritage tour in Old Goa" :> <<"P", "o", "r", "t", "u", "g", "u", "e", "s", "e", " ", "h", "e", "r", "i", "t", "a", "g", "e", " ", "t", "o", "u", "r", " ", "i", "n", " ", "O", "l", "d", " ", "G", "o", "a">>))))))) @@
        (((((("Q" :> <<"Q">>) @@
             ("QUJD" :> <<"Q", "U", "J", "D">>)) @@
            (("Quota exceeded" :> <<"Q", "u", "o", "t", "a", " ", "e", "x", "c", "e", "e", "d", "e", "d">>) @@
             ("R" :> <<"R">>))) @@
           ((("Rent a Scooter" :> <<"R", "e", "n", "t", " ", "a", " ", "S", "c", "o", "o", "t", "e", "r">>) @@
             ("Rent a scooter for easy transportation" :> <<"R", "e", "n", "t", " ", "a", " ", "s", "c", "o", "o", "t", "e", "r", " ", "f", "o", "r", " ", "e", "a", "s", "y", " ", "t", "r", "a", "n", "s", "p", "o", "r", "t", "a", "t", "i", "o", "n">>)) @@
            (("Respect local customs at religious sites" :> <<"R", "e", "s", "p", "e", "c", "t", " ", "l", "o", "c", "a", "l", " ", "c", "u", "s", "t", "o", "m", "s", " ", "a", "t", " ", "r", "e", "l", "i", "g", "i", "o", "u", "s", " ", "s", "i", "t", "e", "s">>) @@
             ("Respect temple dress codes" :> <<"R", "e", "s", "p", "e", "c", "t", " ", "t", "e", "m", "p", "l", "e", " ", "d", "r", "e", "s", "s", " ", "c", "o", "d", "e", "s">>)))) @@
          (((("S" :> <<"S">>) @@
             ("Scuba diving at Grande Island" :> <<"S", "c", "u", "b", "a", " ", "d", "i", "v", "i", "n", "g", " ", "a", "t", " ", "G", "r", "a", "n", "d", "e", " ", "I", "s", "l", "a", "n", "d">>)) @@
            (("Show me adventure activities in this destination" :> <<"S", "h", "o", "w", " ", "m", "e", " ", "a", "d", "v", "e", "n", "t", "u", "r", "e", " ", "a", "c", "t", "i", "v", "i", "t", "i", "e", "s", " ", "i", "n", " ", "t", "h", "i", "s", " ", "d", "e", "s", "t", "i", "n", "a", "t", "i", "o", "n">>) @@
             ("Show premium resort options" :> <<"S", "h", "o", "w", " ", "p", "r", "e", "m", "i", "u", "m", " ", "r", "e", "s", "o", "r", "t", " ", "o", "p", "t", "i", "o", "n", "s">>))) @@
           ((("Silent Valley National Park" :> <<"S", "i", "l", "e", "n", "t", " ", "V", "a", "l", "l", "e", "y", " ", "N", "a", "t", "i", "o", "n", "a", "l", " ", "P", "a", "r", "k">>) @@
             ("Specific accommodation recommendations" :> <<"S", "p", "e", "c", "i", "f", "i", "c", " ", "a", "c", "c", "o", "m", "m", "o", "d", "a", "t", "i", "o", "n", " ", "r", "e", "c", "o", "m", "m", "e", "n", "d", "a", "t", "i", "o", "n", "s">>)) @@
            (("Spice Plantation Tour" :> <<"S", "p", "i", "c", "e", " ", "P", "l", "a", "n", "t", "a", "t", "i", "o", "n", " ", "T", "o", "u", "r">>) @@
             (("Spice plantation visits" :> <<"S", "p", "i", "c", "e", " ", "p", "l", "a", "n", "t", "a", "t", "i", "o", "n", " ", "v", "i", "s", "i", "t", "s">>) @@
              ("Sunset at Chapora Fort" :> <<"S", "u", "n", "s", "e", "t", " ", "a", "t", " ", "C", "h", "a", "p", "o", "r", "a", " ", "F", "o", "r", "t">>)))))) @@
         ((((("Sunset cruises on Mandovi River" :> <<"S", "u", "n", "s", "e", "t", " ", "c", "r", "u", "i", "s", "e", "s", " ", "o", "n", " ", "M", "a", "n", "d", "o", "v", "i", " ", "R", "i", "v", "e", "r">>) @@
             ("T" :> <<"T">>)) @@
            (("Taj Exotica Goa" :> <<"T", "a", "j", " ", "E", "x", "o", "t", "i", "c", "a", " ", "G", "o", "a">>) @@
             ("Taj Exotica Resort" :> <<"T", "a", "j", " ", "E", "x", "o", "t", "i", "c", "a", " ", "R", "e", "s", "o", "r", "t">>))) @@
           ((("Taj Exotica Resort & Spa" :> <<"T", "a", "j", " ", "E", "x", "o", "t", "i", "c", "a", " ", "R", "e", "s", "o", "r", "t", " ", "&", " ", "S", "p", "a">>) @@
             ("Taj Malabar Resort" :> <<"T", "a", "j", " ", "M", "a", "l", "a", "b", "a", "r", " ", "R", "e", "s", "o", "r", "t">>)) @@
            (("Tea plantation tours in Munnar" :> <<"T", "e", "a", " ", "p", "l", "a", "n", "t", "a", "t", "i", "o", "n", " ", "t", "o", "u", "r", "s", " ", "i", "n", " ", "M", "u", "n", "n", "a", "r">>) @@
             ("Temple architecture tours" :> <<"T", "e", "m", "p", "l", "e", " ", "a", "r", "c", "h", "i", "t", "e", "c", "t", "u", "r", "e", " ", "t", "o", "u", "r", "s">>)))) @@
          (((("The more we chat, the better I become at creating your perfect " :> <<"T", "h", "e", " ", "m", "o", "r", "e", " ", "w", "e", " ", "c", "h", "a", "t", ",", " ", "t", "h", "e", " ", "b", "e", "t", "t", "e", "r", " ", "I", " ", "b", "e", "c", "o", "m", "e", " ", "a", "t", " ", "c", "r", "e", "a", "t", "i", "n", "g", " ", "y", "o", "u", "r", " ", "p", "e", "r", "f", "e", "c", "t", " ">>) @@
             ("Too expensive for me" :> <<"T", "o", "o", " ", "e", "x", "p", "e", "n", "s", "i", "v", "e", " ", "f", "o", "r", " ", "m", "e">>)) @@
            (("Traditional South Indian breakfast tours" :> <<"T", "r", "a", "d", "i", "t", "i", "o", "n", "a", "l", " ", "S", "o", "u", "t", "h", " ", "I", "n", "d", "i", "a", "n", " ", "b", "r", "e", "a", "k", "f", "a", "s", "t", " ", "t", "o", "u", "r", "s">>) @@
             ("Transportation and logistics" :> <<"T", "r", "a", "n", "s", "p", "o", "r", "t", "a", "t", "i", "o", "n", " ", "a", "n", "d", " ", "l", "o", "g", "i", "s", "t", "i", "c", "s">>))) @@
           ((("Travel Inspiration Agent here! Hey " :> <<"T", "r", "a", "v", "e", "l", " ", "I", "n", "s", "p", "i", "r", "a", "t", "i", "o", "n", " ", "A", "g", "e", "n", "t", " ", "h", "e", "r", "e", "!", " ", "H", "e", "y", " ">>) @@
             ("Travel Planning Agent at your service! Hi " :> <<"T", "r", "a", "v", "e", "l", " ", "P", "l", "a", "n", "n", "i", "n", "g", " ", "A", "g", "e", "n", "t", " ", "a", "t", " ", "y", "o", "u", "r", " ", "s", "e", "r", "v", "i", "c", "e", "!", " ", "H", "i", " ">>)) @@
            (("Trip_Monitor" :> <<"T", "r", "i", "p", "_", "M", "o", "n", "i", "t", "o", "r">>) @@
             (("Try Goan fish curry and rice" :> <<"T", "r", "y", " ", "G", "o", "a", "n", " ", "f", "i", "s", "h", " ", "c", "u", "r", "r", "y", " ", "a", "n", "d", " ", "r", "i", "c", "e">>) @@
              ("Try Kerala sadya (traditional meal)" :> <<"T", "r", "y", " ", "K", "e", "r", "a", "l", "a", " ", "s", "a", "d", "y", "a", " ", "(", "t", "r", "a", "d", "i", "t", "i", "o", "n", "a", "l", " ", "m", "e", "a", "l", ")">>)))))))) @@
       ((((((("Try authentic Tamil meals on banana leaf" :> <<"T", "r", "y", " ", "a", "u", "t", "h", "e", "n", "t", "i", "c", " ", "T", "a", "m", "i", "l", " ", "m", "e", "a", "l", "s", " ", "o", "n", " ", "b", "a", "n", "a", "n", "a", " ", "l", "e", "a", "f">>) @@
             ("U" :> <<"U">>)) @@
            (("Use Chennai Metro for easy travel" :> <<"U", "s", "e", " ", "C", "h", "e", "n", "n", "a", "i", " ", "M", "e", "t", "r", "o", " ", "f", "o", "r", " ", "e", "a", "s", "y", " ", "t", "r", "a", "v", "e", "l">>) @@
             ("V" :> <<"V">>))) @@
           ((("VIP" :> <<"V", "I", "P">>) @@
             ("Vistara - Premium Economy" :> <<"V", "i", "s", "t", "a", "r", "a", " ", "-", " ", "P", "r", "e", "m", "i", "u", "m", " ", "E", "c", "o", "n", "o", "m", "y">>)) @@
            (("W" :> <<"W">>) @@
             ("What are the most luxurious restaurants here?" :> <<"W", "h", "a", "t", " ", "a", "r", "e", " ", "t", "h", "e", " ", "m", "o", "s", "t", " ", "l", "u", "x", "u", "r", "i", "o", "u", "s", " ", "r", "e", "s", "t", "a", "u", "r", "a", "n", "t", "s", " ", "h", "e", "r", "e", "?">>)))) @@
          (((("What are the most thrilling things to do here?" :> <<"W", "h", "a", "t", " ", "a", "r", "e", " ", "t", "h", "e", " ", "m", "o", "s", "t", " ", "t", "h", "r", "i", "l", "l", "i", "n", "g", " ", "t", "h", "i", "n", "g", "s", " ", "t", "o", " ", "d", "o", " ", "h", "e", "r", "e", "?">>) @@
             ("What authentic local experiences are available?" :> <<"W", "h", "a", "t", " ", "a", "u", "t", "h", "e", "n", "t", "i", "c", " ", "l", "o", "c", "a", "l", " ", "e", "x", "p", "e", "r", "i", "e", "n", "c", "e", "s", " ", "a", "r", "e", " ", "a", "v", "a", "i", "l", "a", "b", "l", "e", "?">>)) @@
            (("What would you like to know next?" :> <<"W", "h", "a", "t", " ", "w", "o", "u", "l", "d", " ", "y", "o", "u", " ", "l", "i", "k", "e", " ", "t", "o", " ", "k", "n", "o", "w", " ", "n", "e", "x", "t", "?">>) @@
             ("Why I'm perfect for you: " :> <<"W", "h", "y", " ", "I", "'", "m", " ", "p", "e", "r", "f", "e", "c", "t", " ", "f", "o", "r", " ", "y", "o", "u", ":", " ">>))) @@
           ((("Wildlife safari in Thekkady" :> <<"W", "i", "l", "d", "l", "i", "f", "e", " ", "s", "a", "f", "a", "r", "i", " ", "i", "n", " ", "T", "h", "e", "k", "k", "a", "d", "y">>) @@
             ("X" :> <<"X">>)) @@
            (("Y" :> <<"Y">>) @@
             (("Yoga centers in Rishikesh" :> <<"Y", "o", "g", "a", " ", "c", "e", "n", "t", "e", "r", "s", " ", "i", "n", " ", "R", "i", "s", "h", "i", "k", "e", "s", "h">>) @@
              ("Your " :> <<"Y", "o", "u", "r", " ">>)))))) @@
         ((((("Your Personal Travel Concierge! Hello " :> <<"Y", "o", "u", "r", " ", "P", "e", "r", "s", "o", "n", "a", "l", " ", "T", "r", "a", "v", "e", "l", " ", "C", "o", "n", "c", "i", "e", "r", "g", "e", "!", " ", "H", "e", "l", "l", "o", " ">>) @@
             ("Z" :> <<"Z">>)) @@
            (("a" :> <<"a">>) @@
             ("accommodation" :> <<"a", "c", "c", "o", "m", "m", "o", "d", "a", "t", "i", "o", "n">>))) @@
           ((("activity" :> <<"a", "c", "t", "i", "v", "i", "t", "y">>) @@
             ("adrenaline" :> <<"a", "d", "r", "e", "n", "a", "l", "i", "n", "e">>)) @@
            (("adventure" :> <<"a", "d", "v", "e", "n", "t", "u", "r", "e">>) @@
             ("adventurous" :> <<"a", "d", "v", "e", "n", "t", "u", "r", "o", "u", "s">>)))) @@
          (((("affordable" :> <<"a", "f", "f", "o", "r", "d", "a", "b", "l", "e">>) @@
             ("age_group" :> <<"a", "g", "e", "_", "g", "r", "o", "u", "p">>)) @@
            (("ai" :> <<"a", "i">>) @@
             ("alert" :> <<"a", "l", "e", "r", "t">>))) @@
           ((("amazing" :> <<"a", "m", "a", "z", "i", "n", "g">>) @@
             ("answered" :> <<"a", "n", "s", "w", "e", "r", "e", "d">>)) @@
            (("april" :> <<"a", "p", "r", "i", "l">>) @@
             (("architecture" :> <<"a", "r", "c", "h", "i", "t", "e", "c", "t", "u", "r", "e">>) @@
              ("art" :> <<"a", "r", "t">>))))))) @@
        (((((("attraction" :> <<"a", "t", "t", "r", "a", "c", "t", "i", "o", "n">>) @@
             ("audio" :> <<"a", "u", "d", "i", "o">>)) @@
            (("august" :> <<"a", "u", "g", "u", "s", "t">>) @@
             ("authentic" :> <<"a", "u", "t", "h", "e", "n", "t", "i", "c">>))) @@
           ((("awesome" :> <<"a", "w", "e", "s", "o", "m", "e">>) @@
             ("b" :> <<"b">>)) @@
            (("backpack" :> <<"b", "a", "c", "k", "p", "a", "c", "k">>) @@
             ("backpacker" :> <<"b", "a", "c", "k", "p", "a", "c", "k", "e", "r">>)))) @@
          (((("backpacking" :> <<"b", "a", "c", "k", "p", "a", "c", "k", "i", "n", "g">>) @@
             ("bangalore" :> <<"b", "a", "n", "g", "a", "l", "o", "r", "e">>)) @@
            (("bar" :> <<"b", "a", "r">>) @@
             ("beach" :> <<"b", "e", "a", "c", "h">>))) @@
           ((("book" :> <<"b", "o", "o", "k">>) @@
             ("booking" :> <<"b", "o", "o", "k", "i", "n", "g">>)) @@
            (("boring" :> <<"b", "o", "r", "i", "n", "g">>) @@
             (("boring Museums" :> <<"b", "o", "r", "i", "n", "g", " ", "M", "u", "s", "e", "u", "m", "s">>) @@
              ("budget" :> <<"b", "u", "d", "g", "e", "t">>)))))) @@
         ((((("budget hostel" :> <<"b", "u", "d", "g", "e", "t", " ", "h", "o", "s", "t", "e", "l">>) @@
             ("budget travel" :> <<"b", "u", "d", "g", "e", "t", " ", "t", "r", "a", "v", "e", "l">>)) @@
            (("budget_adjusted" :> <<"b", "u", "d", "g", "e", "t", "_", "a", "d", "j", "u", "s", "t", "e", "d">>) @@
             ("budget_range" :> <<"b", "u", "d", "g", "e", "t", "_", "r", "a", "n", "g", "e">>))) @@
           ((("business" :> <<"b", "u", "s", "i", "n", "e", "s", "s">>) @@
             ("c" :> <<"c">>)) @@
            (("camera" :> <<"c", "a", "m", "e", "r", "a">>) @@
             ("cancel" :> <<"c", "a", "n", "c", "e", "l">>)))) @@
          (((("capture" :> <<"c", "a", "p", "t", "u", "r", "e">>) @@
             ("casual" :> <<"c", "a", "s", "u", "a", "l">>)) @@
            (("chat" :> <<"c", "h", "a", "t">>) @@
             ("cheap" :> <<"c", "h", "e", "a", "p">>))) @@
           ((("chennai" :> <<"c", "h", "e", "n", "n", "a", "i">>) @@
             ("children" :> <<"c", "h", "i", "l", "d", "r", "e", "n">>)) @@
            (("climbing" :> <<"c", "l", "i", "m", "b", "i", "n", "g">>) @@
             (("club" :> <<"c", "l", "u", "b">>) @@
              ("communication_style" :> <<"c", "o", "m", "m", "u", "n", "i", "c", "a", "t", "i", "o", "n", "_", "s", "t", "y", "l", "e">>)))))))))) @@
     ((((((((("concise" :> <<"c", "o", "n", "c", "i", "s", "e">>) @@
             ("conference" :> <<"c", "o", "n", "f", "e", "r", "e", "n", "c", "e">>)) @@
            (("conversation_history" :> <<"c", "o", "n", "v", "e", "r", "s", "a", "t", "i", "o", "n", "_", "h", "i", "s", "t", "o", "r", "y">>) @@
             ("cooking" :> <<"c", "o", "o", "k", "i", "n", "g">>))) @@
           ((("cool" :> <<"c", "o", "o", "l">>) @@
             ("corporate" :> <<"c", "o", "r", "p", "o", "r", "a", "t", "e">>)) @@
            (("corrected_suggestion" :> <<"c", "o", "r", "r", "e", "c", "t", "e", "d", "_", "s", "u", "g", "g", "e", "s", "t", "i", "o", "n">>) @@
             ("correction" :> <<"c", "o", "r", "r", "e", "c", "t", "i", "o", "n">>)))) @@
          (((("corrections" :> <<"c", "o", "r", "r", "e", "c", "t", "i", "o", "n", "s">>) @@
             ("costly" :> <<"c", "o", "s", "t", "l", "y">>)) @@
            (("could you" :> <<"c", "o", "u", "l", "d", " ", "y", "o", "u">>) @@
             ("couple" :> <<"c", "o", "u", "p", "l", "e">>))) @@
           ((("cozy" :> <<"c", "o", "z", "y">>) @@
             ("cuisine" :> <<"c", "u", "i", "s", "i", "n", "e">>)) @@
            (("cultural" :> <<"c", "u", "l", "t", "u", "r", "a", "l">>) @@
             ("culture" :> <<"c", "u", "l", "t", "u", "r", "e">>))))) @@
         ((((("current" :> <<"c", "u", "r", "r", "e", "n", "t">>) @@
             ("d" :> <<"d">>)) @@
            (("dance" :> <<"d", "a", "n", "c", "e">>) @@
             ("data:" :> <<"d", "a", "t", "a", ":">>))) @@
           ((("day" :> <<"d", "a", "y">>) @@
             ("day_of" :> <<"d", "a", "y", "_", "o", "f">>)) @@
            (("days" :> <<"d", "a", "y", "s">>) @@
             ("de-DE" :> <<"d", "e", "-", "D", "E">>)))) @@
          (((("december" :> <<"d", "e", "c", "e", "m", "b", "e", "r">>) @@
             ("delay" :> <<"d", "e", "l", "a", "y">>)) @@
            (("delhi" :> <<"d", "e", "l", "h", "i">>) @@
             ("destination" :> <<"d", "e", "s", "t", "i", "n", "a", "t", "i", "o", "n">>))) @@
           ((("detailed" :> <<"d", "e", "t", "a", "i", "l", "e", "d">>) @@
             ("detox" :> <<"d", "e", "t", "o", "x">>)) @@
            (("direction" :> <<"d", "i", "r", "e", "c", "t", "i", "o", "n">>) @@
             (("disconnect" :> <<"d", "i", "s", "c", "o", "n", "n", "e", "c", "t">>) @@
              ("disliked_tone" :> <<"d", "i", "s", "l", "i", "k", "e", "d", "_", "t", "o", "n", "e">>))))))) @@
        (((((("down" :> <<"d", "o", "w", "n">>) @@
             ("drinks" :> <<"d", "r", "i", "n", "k", "s">>)) @@
            (("e" :> <<"e">>) @@
             ("educational" :> <<"e", "d", "u", "c", "a", "t", "i", "o", "n", "a", "l">>))) @@
           ((("emergency" :> <<"e", "m", "e", "r", "g", "e", "n", "c", "y">>) @@
             ("emoji" :> <<"e", "m", "o", "j", "i">>)) @@
            (("en" :> <<"e", "n">>) @@
             ("en-GB" :> <<"e", "n", "-", "G", "B">>)))) @@
          (((("en-US" :> <<"e", "n", "-", "U", "S">>) @@
             ("ended" :> <<"e", "n", "d", "e", "d">>)) @@
            (("entertainment" :> <<"e", "n", "t", "e", "r", "t", "a", "i", "n", "m", "e", "n", "t">>) @@
             ("enthusiastic" :> <<"e", "n", "t", "h", "u", "s", "i", "a", "s", "t", "i", "c">>))) @@
           ((("error" :> <<"e", "r", "r", "o", "r">>) @@
             ("es-ES" :> <<"e", "s", "-", "E", "S">>)) @@
            (("exclusive" :> <<"e", "x", "c", "l", "u", "s", "i", "v", "e">>) @@
             (("expensive" :> <<"e", "x", "p", "e", "n", "s", "i", "v", "e">>) @@
              ("extreme" :> <<"e", "x", "t", "r", "e", "m", "e">>)))))) @@
         ((((("f" :> <<"f">>) @@
             ("family" :> <<"f", "a", "m", "i", "l", "y">>)) @@
            (("family-friendly" :> <<"f", "a", "m", "i", "l", "y", "-", "f", "r", "i", "e", "n", "d", "l", "y">>) @@
             ("february" :> <<"f", "e", "b", "r", "u", "a", "r", "y">>))) @@
           ((("feedback" :> <<"f", "e", "e", "d", "b", "a", "c", "k">>) @@
             ("feedback_history" :> <<"f", "e", "e", "d", "b", "a", "c", "k", "_", "h", "i", "s", "t", "o", "r", "y">>)) @@
            (("feedback_text" :> <<"f", "e", "e", "d", "b", "a", "c", "k", "_", "t", "e", "x", "t">>) @@
             ("fine dining" :> <<"f", "i", "n", "e", " ", "d", "i", "n", "i", "n", "g">>)))) @@
          (((("fitness" :> <<"f", "i", "t", "n", "e", "s", "s">>) @@
             ("five" :> <<"f", "i", "v", "e">>)) @@
            (("flavor" :> <<"f", "l", "a", "v", "o", "r">>) @@
             ("flight" :> <<"f", "l", "i", "g", "h", "t">>))) @@
           ((("food" :> <<"f", "o", "o", "d">>) @@
             ("foodie" :> <<"f", "o", "o", "d", "i", "e">>)) @@
            (("forest" :> <<"f", "o", "r", "e", "s", "t">>) @@
             (("formal" :> <<"f", "o", "r", "m", "a", "l">>) @@
              ("fort" :> <<"f", "o", "r", "t">>)))))))) @@
       ((((((("fr-FR" :> <<"f", "r", "-", "F", "R">>) @@
             ("friendly" :> <<"f", "r", "i", "e", "n", "d", "l", "y">>)) @@
            (("g" :> <<"g">>) @@
             ("general" :> <<"g", "e", "n", "e", "r", "a", "l">>))) @@
           ((("goa" :> <<"g", "o", "a">>) @@
             ("golden hour" :> <<"g", "o", "l", "d", "e", "n", " ", "h", "o", "u", "r">>)) @@
            (("h" :> <<"h">>) @@
             ("health" :> <<"h", "e", "a", "l", "t", "h">>)))) @@
          (((("hello" :> <<"h", "e", "l", "l", "o">>) @@
             ("help" :> <<"h", "e", "l", "p">>)) @@
            (("heritage" :> <<"h", "e", "r", "i", "t", "a", "g", "e">>) @@
             ("hi-IN" :> <<"h", "i", "-", "I", "N">>))) @@
           ((("high-end" :> <<"h", "i", "g", "h", "-", "e", "n", "d">>) @@
             ("hiking" :> <<"h", "i", "k", "i", "n", "g">>)) @@
            (("himachal" :> <<"h", "i", "m", "a", "c", "h", "a", "l">>) @@
             (("history" :> <<"h", "i", "s", "t", "o", "r", "y">>) @@
              ("honeymoon" :> <<"h", "o", "n", "e", "y", "m", "o", "o", "n">>)))))) @@
         ((((("hostel" :> <<"h", "o", "s", "t", "e", "l">>) @@
             ("hotel" :> <<"h", "o", "t", "e", "l">>)) @@
            (("humorous" :> <<"h", "u", "m", "o", "r", "o", "u", "s">>) @@
             ("i" :> <<"i">>))) @@
           ((("idea" :> <<"i", "d", "e", "a">>) @@
             ("idle" :> <<"i", "d", "l", "e">>)) @@
            (("independence" :> <<"i", "n", "d", "e", "p", "e", "n", "d", "e", "n", "c", "e">>) @@
             ("init" :> <<"i", "n", "i", "t">>)))) @@
          (((("inspiration" :> <<"i", "n", "s", "p", "i", "r", "a", "t", "i", "o", "n">>) @@
             ("inspire" :> <<"i", "n", "s", "p", "i", "r", "e">>)) @@
            (("instagram" :> <<"i", "n", "s", "t", "a", "g", "r", "a", "m">>) @@
             ("interests" :> <<"i", "n", "t", "e", "r", "e", "s", "t", "s">>))) @@
           ((("intimate" :> <<"i", "n", "t", "i", "m", "a", "t", "e">>) @@
             ("invalid_value" :> <<"i", "n", "v", "a", "l", "i", "d", "_", "v", "a", "l", "u", "e">>)) @@
            (("itinerary" :> <<"i", "t", "i", "n", "e", "r", "a", "r", "y">>) @@
             (("j" :> <<"j">>) @@
              ("january" :> <<"j", "a", "n", "u", "a", "r", "y">>))))))) @@
        (((((("july" :> <<"j", "u", "l", "y">>) @@
             ("june" :> <<"j", "u", "n", "e">>)) @@
            (("k" :> <<"k">>) @@
             ("kashmir" :> <<"k", "a", "s", "h", "m", "i", "r">>))) @@
           ((("kerala" :> <<"k", "e", "r", "a", "l", "a">>) @@
             ("kids" :> <<"k", "i", "d", "s">>)) @@
            (("kindly" :> <<"k", "i", "n", "d", "l", "y">>) @@
             ("l" :> <<"l">>)))) @@
          (((("lake" :> <<"l", "a", "k", "e">>) @@
             ("last_interaction" :> <<"l", "a", "s", "t", "_", "i", "n", "t", "e", "r", "a", "c", "t", "i", "o", "n">>)) @@
            (("learning_insights" :> <<"l", "e", "a", "r", "n", "i", "n", "g", "_", "i", "n", "s", "i", "g", "h", "t", "s">>) @@
             ("liked_suggestions" :> <<"l", "i", "k", "e", "d", "_", "s", "u", "g", "g", "e", "s", "t", "i", "o", "n", "s">>))) @@
           ((("local" :> <<"l", "o", "c", "a", "l">>) @@
             ("local food" :> <<"l", "o", "c", "a", "l", " ", "f", "o", "o", "d">>)) @@
            (("love" :> <<"l", "o", "v", "e">>) @@
             (("low cost" :> <<"l", "o", "w", " ", "c", "o", "s", "t">>) @@
              ("luxurious" :> <<"l", "u", "x", "u", "r", "i", "o", "u", "s">>)))))) @@
         ((((("luxury" :> <<"l", "u", "x", "u", "r", "y">>) @@
             ("luxury hotel" :> <<"l", "u", "x", "u", "r", "y", " ", "h", "o", "t", "e", "l">>)) @@
            (("m" :> <<"m">>) @@
             ("march" :> <<"m", "a", "r", "c", "h">>))) @@
           ((("massage" :> <<"m", "a", "s", "s", "a", "g", "e">>) @@
             ("may" :> <<"m", "a", "y">>)) @@
            (("meditation" :> <<"m", "e", "d", "i", "t", "a", "t", "i", "o", "n">>) @@
             ("meeting" :> <<"m", "e", "e", "t", "i", "n", "g">>)))) @@
          (((("message" :> <<"m", "e", "s", "s", "a", "g", "e">>) @@
             ("mid-range" :> <<"m", "i", "d", "-", "r", "a", "n", "g", "e">>)) @@
            (("milestone" :> <<"m", "i", "l", "e", "s", "t", "o", "n", "e">>) @@
             ("moderate" :> <<"m", "o", "d", "e", "r", "a", "t", "e">>))) @@
           ((("monitor" :> <<"m", "o", "n", "i", "t", "o", "r">>) @@
             ("month" :> <<"m", "o", "n", "t", "h">>)) @@
            (("months" :> <<"m", "o", "n", "t", "h", "s">>) @@
             (("monument" :> <<"m", "o", "n", "u", "m", "e", "n", "t">>) @@
              ("mountain" :> <<"m", "o", "u", "n", "t", "a", "i", "n">>))))))))) @@
      (((((((("multi_agent" :> <<"m", "u", "l", "t", "i", "_", "a", "g", "e", "n", "t">>) @@
             ("mumbai" :> <<"m", "u", "m", "b", "a", "i">>)) @@
            (("museum" :> <<"m", "u", "s", "e", "u", "m">>) @@
             ("music" :> <<"m", "u", "s", "i", "c">>))) @@
           ((("n" :> <<"n">>) @@
             ("name" :> <<"n", "a", "m", "e">>)) @@
            (("nature" :> <<"n", "a", "t", "u", "r", "e">>) @@
             ("navigate" :> <<"n", "a", "v", "i", "g", "a", "t", "e">>)))) @@
          (((("networking" :> <<"n", "e", "t", "w", "o", "r", "k", "i", "n", "g">>) @@
             ("next month" :> <<"n", "e", "x", "t", " ", "m", "o", "n", "t", "h">>)) @@
            (("next week" :> <<"n", "e", "x", "t", " ", "w", "e", "e", "k">>) @@
             ("nightlife" :> <<"n", "i", "g", "h", "t", "l", "i", "f", "e">>))) @@
           ((("none" :> <<"n", "o", "n", "e">>) @@
             ("not interested" :> <<"n", "o", "t", " ", "i", "n", "t", "e", "r", "e", "s", "t", "e", "d">>)) @@
            (("november" :> <<"n", "o", "v", "e", "m", "b", "e", "r">>) @@
             (("now" :> <<"n", "o", "w">>) @@
              ("o" :> <<"o">>)))))) @@
         ((((("october" :> <<"o", "c", "t", "o", "b", "e", "r">>) @@
             ("organize" :> <<"o", "r", "g", "a", "n", "i", "z", "e">>)) @@
            (("original_suggestion" :> <<"o", "r", "i", "g", "i", "n", "a", "l", "_", "s", "u", "g", "g", "e", "s", "t", "i", "o", "n">>) @@
             ("outdoor" :> <<"o", "u", "t", "d", "o", "o", "r">>))) @@
           ((("p" :> <<"p">>) @@
             ("party" :> <<"p", "a", "r", "t", "y">>)) @@
            (("personality_type" :> <<"p", "e", "r", "s", "o", "n", "a", "l", "i", "t", "y", "_", "t", "y", "p", "e">>) @@
             ("personalization_score" :> <<"p", "e", "r", "s", "o", "n", "a", "l", "i", "z", "a", "t", "i", "o", "n", "_", "s", "c", "o", "r", "e">>)))) @@
          (((("photographer" :> <<"p", "h", "o", "t", "o", "g", "r", "a", "p", "h", "e", "r">>) @@
             ("photography" :> <<"p", "h", "o", "t", "o", "g", "r", "a", "p", "h", "y">>)) @@
            (("photos" :> <<"p", "h", "o", "t", "o", "s">>) @@
             ("place" :> <<"p", "l", "a", "c", "e">>))) @@
           ((("plan" :> <<"p", "l", "a", "n">>) @@
             ("planning" :> <<"p", "l", "a", "n", "n", "i", "n", "g">>)) @@
            (("playground" :> <<"p", "l", "a", "y", "g", "r", "o", "u", "n", "d">>) @@
             (("please" :> <<"p", "l", "e", "a", "s", "e">>) @@
              ("poi" :> <<"p", "o", "i">>))))))) @@
        (((((("preference_learned_from_correction" :> <<"p", "r", "e", "f", "e", "r", "e", "n", "c", "e", "_", "l", "e", "a", "r", "n", "e", "d", "_", "f", "r", "o", "m", "_", "c", "o", "r", "r", "e", "c", "t", "i", "o", "n">>) @@
             ("preferred_language" :> <<"p", "r", "e", "f", "e", "r", "r", "e", "d", "_", "l", "a", "n", "g", "u", "a", "g", "e">>)) @@
            (("prefers_adventure_activities" :> <<"p", "r", "e", "f", "e", "r", "s", "_", "a", "d", "v", "e", "n", "t", "u", "r", "e", "_", "a", "c", "t", "i", "v", "i", "t", "i", "e", "s">>) @@
             ("prefers_budget_over_luxury" :> <<"p", "r", "e", "f", "e", "r", "s", "_", "b", "u", "d", "g", "e", "t", "_", "o", "v", "e", "r", "_", "l", "u", "x", "u", "r", "y">>))) @@
           ((("prefers_cultural_experiences" :> <<"p", "r", "e", "f", "e", "r", "s", "_", "c", "u", "l", "t", "u", "r", "a", "l", "_", "e", "x", "p", "e", "r", "i", "e", "n", "c", "e", "s">>) @@
             ("prefers_luxury_over_budget" :> <<"p", "r", "e", "f", "e", "r", "s", "_", "l", "u", "x", "u", "r", "y", "_", "o", "v", "e", "r", "_", "b", "u", "d", "g", "e", "t">>)) @@
            (("premium" :> <<"p", "r", "e", "m", "i", "u", "m">>) @@
             ("premium but costly" :> <<"p", "r", "e", "m", "i", "u", "m", " ", "b", "u", "t", " ", "c", "o", "s", "t", "l", "y">>)))) @@
          (((("price" :> <<"p", "r", "i", "c", "e">>) @@
             ("professional" :> <<"p", "r", "o", "f", "e", "s", "s", "i", "o", "n", "a", "l">>)) @@
            (("q" :> <<"q">>) @@
             ("quota" :> <<"q", "u", "o", "t", "a">>))) @@
           ((("r" :> <<"r">>) @@
             ("rafting" :> <<"r", "a", "f", "t", "i", "n", "g">>)) @@
            (("rajasthan" :> <<"r", "a", "j", "a", "s", "t", "h", "a", "n">>) @@
             (("rating" :> <<"r", "a", "t", "i", "n", "g">>) @@
              ("ready" :> <<"r", "e", "a", "d", "y">>)))))) @@
         ((((("reasonable" :> <<"r", "e", "a", "s", "o", "n", "a", "b", "l", "e">>) @@
             ("relaxed" :> <<"r", "e", "l", "a", "x", "e", "d">>)) @@
            (("removed_interest" :> <<"r", "e", "m", "o", "v", "e", "d", "_", "i", "n", "t", "e", "r", "e", "s", "t">>) @@
             ("reserve" :> <<"r", "e", "s", "e", "r", "v", "e">>))) @@
           ((("resort" :> <<"r", "e", "s", "o", "r", "t">>) @@
             ("restart" :> <<"r", "e", "s", "t", "a", "r", "t">>)) @@
            (("restaurant" :> <<"r", "e", "s", "t", "a", "u", "r", "a", "n", "t">>) @@
             ("river" :> <<"r", "i", "v", "e", "r">>)))) @@
          (((("romance" :> <<"r", "o", "m", "a", "n", "c", "e">>) @@
             ("romantic" :> <<"r", "o", "m", "a", "n", "t", "i", "c">>)) @@
            (("running" :> <<"r", "u", "n", "n", "i", "n", "g">>) @@
             ("s" :> <<"s">>))) @@
           ((("safari" :> <<"s", "a", "f", "a", "r", "i">>) @@
             ("safe" :> <<"s", "a", "f", "e">>)) @@
            (("satisfaction_scores" :> <<"s", "a", "t", "i", "s", "f", "a", "c", "t", "i", "o", "n", "_", "s", "c", "o", "r", "e", "s">>) @@
             (("satisfaction_trend" :> <<"s", "a", "t", "i", "s", "f", "a", "c", "t", "i", "o", "n", "_", "t", "r", "e", "n", "d">>) @@
              ("scenic" :> <<"s", "c", "e", "n", "i", "c">>)))))))) @@
       ((((((("schedule" :> <<"s", "c", "h", "e", "d", "u", "l", "e">>) @@
             ("see" :> <<"s", "e", "e">>)) @@
            (("september" :> <<"s", "e", "p", "t", "e", "m", "b", "e", "r">>) @@
             ("shoot" :> <<"s", "h", "o", "o", "t">>))) @@
           ((("sightseeing" :> <<"s", "i", "g", "h", "t", "s", "e", "e", "i", "n", "g">>) @@
             ("smile" :> <<"s", "m", "i", "l", "e">>)) @@
            (("solo" :> <<"s", "o", "l", "o">>) @@
             ("spa" :> <<"s", "p", "a">>)))) @@
          (((("stats" :> <<"s", "t", "a", "t", "s">>) @@
             ("status" :> <<"s", "t", "a", "t", "u", "s">>)) @@
            (("street food" :> <<"s", "t", "r", "e", "e", "t", " ", "f", "o", "o", "d">>) @@
             ("successful_patterns" :> <<"s", "u", "c", "c", "e", "s", "s", "f", "u", "l", "_", "p", "a", "t", "t", "e", "r", "n", "s">>))) @@
           ((("suggest" :> <<"s", "u", "g", "g", "e", "s", "t">>) @@
             ("sunset" :> <<"s", "u", "n", "s", "e", "t">>)) @@
            (("t" :> <<"t">>) @@
             (("taste" :> <<"t", "a", "s", "t", "e">>) @@
              ("temple" :> <<"t", "e", "m", "p", "l", "e">>)))))) @@
         ((((("things to do" :> <<"t", "h", "i", "n", "g", "s", " ", "t", "o", " ", "d", "o">>) @@
             ("thrill" :> <<"t", "h", "r", "i", "l", "l">>)) @@
            (("thumbs" :> <<"t", "h", "u", "m", "b", "s">>) @@
             ("ticket" :> <<"t", "i", "c", "k", "e", "t">>))) @@
           ((("today" :> <<"t", "o", "d", "a", "y">>) @@
             ("together" :> <<"t", "o", "g", "e", "t", "h", "e", "r">>)) @@
            (("tomorrow" :> <<"t", "o", "m", "o", "r", "r", "o", "w">>) @@
             ("too expensive" :> <<"t", "o", "o", " ", "e", "x", "p", "e", "n", "s", "i", "v", "e">>)))) @@
          (((("too_casual" :> <<"t", "o", "o", "_", "c", "a", "s", "u", "a", "l">>) @@
             ("too_enthusiastic" :> <<"t", "o", "o", "_", "e", "n", "t", "h", "u", "s", "i", "a", "s", "t", "i", "c">>)) @@
            (("too_formal" :> <<"t", "o", "o", "_", "f", "o", "r", "m", "a", "l">>) @@
             ("traditional" :> <<"t", "r", "a", "d", "i", "t", "i", "o", "n", "a", "l">>))) @@
           ((("transport" :> <<"t", "r", "a", "n", "s", "p", "o", "r", "t">>) @@
             ("travel_history" :> <<"t", "r", "a", "v", "e", "l", "_", "h", "i", "s", "t", "o", "r", "y">>)) @@
            (("trekking" :> <<"t", "r", "e", "k", "k", "i", "n", "g">>) @@
             (("trip" :> <<"t", "r", "i", "p">>) @@
              ("trip_monitor" :> <<"t", "r", "i", "p", "_", "m", "o", "n", "i", "t", "o", "r">>))))))) @@
        (((((("u" :> <<"u">>) @@
             ("u1" :> <<"u", "1">>)) @@
            (("u2" :> <<"u", "2">>) @@
             ("unsuccessful_patterns" :> <<"u", "n", "s", "u", "c", "c", "e", "s", "s", "f", "u", "l", "_", "p", "a", "t", "t", "e", "r", "n", "s">>))) @@
           ((("up" :> <<"u", "p">>) @@
             ("update" :> <<"u", "p", "d", "a", "t", "e">>)) @@
            (("user" :> <<"u", "s", "e", "r">>) @@
             ("user_id" :> <<"u", "s", "e", "r", "_", "i", "d">>)))) @@
          (((("user_insights" :> <<"u", "s", "e", "r", "_", "i", "n", "s", "i", "g", "h", "t", "s">>) @@
             ("v" :> <<"v">>)) @@
            (("vacation" :> <<"v", "a", "c", "a", "t", "i", "o", "n">>) @@
             ("valued traveler" :> <<"v", "a", "l", "u", "e", "d", " ", "t", "r", "a", "v", "e", "l", "e", "r">>))) @@
           ((("visit" :> <<"v", "i", "s", "i", "t">>) @@
             ("voice" :> <<"v", "o", "i", "c", "e">>)) @@
            (("voice_audio_data" :> <<"v", "o", "i", "c", "e", "_", "a", "u", "d", "i", "o", "_", "d", "a", "t", "a">>) @@
             (("voice_enabled" :> <<"v", "o", "i", "c", "e", "_", "e", "n", "a", "b", "l", "e", "d">>) @@
              ("w" :> <<"w">>)))))) @@
         ((((("w1" :> <<"w", "1">>) @@
             ("w2" :> <<"w", "2">>)) @@
            (("w3" :> <<"w", "3">>) @@
             ("weather" :> <<"w", "e", "a", "t", "h", "e", "r">>))) @@
           ((("week" :> <<"w", "e", "e", "k">>) @@
             ("weeks" :> <<"w", "e", "e", "k", "s">>)) @@
            (("wellness" :> <<"w", "e", "l", "l", "n", "e", "s", "s">>) @@
             ("where" :> <<"w", "h", "e", "r", "e">>)))) @@
          (((("wildlife" :> <<"w", "i", "l", "d", "l", "i", "f", "e">>) @@
             ("work" :> <<"w", "o", "r", "k">>)) @@
            (("would you" :> <<"w", "o", "u", "l", "d", " ", "y", "o", "u">>) @@
             ("wow" :> <<"w", "o", "w">>))) @@
           ((("wow luxury spa in Goa" :> <<"w", "o", "w", " ", "l", "u", "x", "u", "r", "y", " ", "s", "p", "a", " ", "i", "n", " ", "G", "o", "a">>) @@
             ("x" :> <<"x">>)) @@
            (("y" :> <<"y">>) @@
             (("yoga" :> <<"y", "o", "g", "a">>) @@
              ("z" :> <<"z">>)))))))))))

\* the characters of a text
chars(s) == CharsOf[s]

UpperChars ==
    <<"A","B","C","D","E","F","G","H","I","J","K","L","M",
      "N","O","P","Q","R","S","T","U","V","W","X","Y","Z">>

LowerChars ==
    <<"a","b","c","d","e","f","g","h","i","j","k","l","m",
      "n","o","p","q","r","s","t","u","v","w","x","y","z">>

\* str.lower() on one character
lower_char(c) ==
    IF \E i \in DOMAIN UpperChars : UpperChars[i] = c
    THEN LowerChars[CHOOSE i \in DOMAIN UpperChars : UpperChars[i] = c]
    ELSE c

\* str.lower(), on the characters of a text
lower(cs) == [i \in 1..Len(cs) |-> lower_char(cs[i])]

\* Python `k in s` for strings: k occurs in s as a contiguous substring
\* (k, s: characters)
Contains(k, s) ==
    \E i \in 1..(Len(s) - Len(k) + 1) : SubSeq(s, i, i + Len(k) - 1) = k

\* Python any(word in s for word in words) (words: texts, s: characters)
AnyIn(words, s) == \E w \in words : Contains(chars(w), s)

\* A request text built from words separated by single blanks
RECURSIVE Sentence(_)
Sentence(ws) ==
    IF Len(ws) = 0 THEN <<>>
    ELSE IF Len(ws) = 1 THEN chars(ws[1])
    ELSE chars(ws[1]) \o <<" ">> \o Sentence(Tail(ws))

BoundedSeq(S, n) == UNION { [1..k -> S] : k \in 0..n }

(***************************************************************************)
(* Intent classifier: TravelAgentOrchestrator.detect_intent                *)
(***************************************************************************)
LocationWords ==
    {"goa", "kerala", "rajasthan", "himachal", "kashmir", "delhi", "mumbai",
     "bangalore"}

DateWords ==
    {"26th", "27th", "28th", "29th", "30th", "31st", "january", "february",
     "march", "april", "may", "june", "july", "august", "september",
     "october", "november", "december", "today", "tomorrow", "next week",
     "next month"}

DurationWords ==
    {"days", "day", "weeks", "week", "months", "month", "10 days", "7 days",
     "5 days", "3 days"}

PlanningWords ==
    {"plan", "itinerary", "schedule", "trip", "vacation", "days", "week"}

BookingWords ==
    {"book", "reserve", "flight", "hotel", "ticket", "accommodation"}

PoiWords ==
    {"attraction", "visit", "see", "activity", "things to do", "sightseeing",
     "temple", "fort"}

TripMonitorWords ==
    {"status", "update", "weather", "delay", "cancel", "alert", "monitor"}

DayOfWords ==
    {"navigate", "direction", "where", "help", "emergency", "now", "current"}

has_location(message_lower) == AnyIn(LocationWords, message_lower)

has_dates(message_lower) == AnyIn(DateWords, message_lower)

has_duration(message_lower) == AnyIn(DurationWords, message_lower)

\* detect_intent with the plain place rule tested before the compound rule
detect_intent_place_first(msg) ==
    LET message_lower == lower(msg) IN
    IF has_location(message_lower) THEN "place"
    ELSE IF has_location(message_lower)
         /\ (has_dates(message_lower) \/ has_duration(message_lower))
      THEN "multi_agent"
    ELSE IF AnyIn(PlanningWords, message_lower) THEN "planning"
    ELSE IF AnyIn(BookingWords, message_lower) THEN "booking"
    ELSE IF AnyIn(PoiWords, message_lower) THEN "poi"
    ELSE IF AnyIn(TripMonitorWords, message_lower) THEN "trip_monitor"
    ELSE IF AnyIn(DayOfWords, message_lower) THEN "day_of"
    ELSE "inspiration"

\* detect_intent with the planning rule tested before the place rule
detect_intent_planning_before_place(msg) ==
    LET message_lower == lower(msg) IN
    IF has_location(message_lower)
         /\ (has_dates(message_lower) \/ has_duration(message_lower))
      THEN "multi_agent"
    ELSE IF AnyIn(PlanningWords, message_lower) THEN "planning"
    ELSE IF has_location(message_lower) THEN "place"
    ELSE IF AnyIn(BookingWords, message_lower) THEN "booking"
    ELSE IF AnyIn(PoiWords, message_lower) THEN "poi"
    ELSE IF AnyIn(TripMonitorWords, message_lower) THEN "trip_monitor"
    ELSE IF AnyIn(DayOfWords, message_lower) THEN "day_of"
    ELSE "inspiration"

\* detect_intent with the booking rule tested before the planning rule
detect_intent_booking_first(msg) ==
    LET message_lower == lower(msg) IN
    IF has_location(message_lower)
         /\ (has_dates(message_lower) \/ has_duration(message_lower))
      THEN "multi_agent"
    ELSE IF has_location(message_lower) THEN "place"
    ELSE IF AnyIn(BookingWords, message_lower) THEN "booking"
    ELSE IF AnyIn(PlanningWords, message_lower) THEN "planning"
    ELSE IF AnyIn(PoiWords, message_lower) THEN "poi"
    ELSE IF AnyIn(TripMonitorWords, message_lower) THEN "trip_monitor"
    ELSE IF AnyIn(DayOfWords, message_lower) THEN "day_of"
    ELSE "inspiration"

\* detect_intent, on the characters of the message
detect_intent(msg) ==
    LET message_lower == lower(msg) IN
    IF has_location(message_lower)
         /\ (has_dates(message_lower) \/ has_duration(message_lower))
      THEN "multi_agent"
    ELSE IF has_location(message_lower) THEN "place"
    ELSE IF AnyIn(PlanningWords, message_lower) THEN "planning"
    ELSE IF AnyIn(BookingWords, message_lower) THEN "booking"
    ELSE IF AnyIn(PoiWords, message_lower) THEN "poi"
    ELSE IF AnyIn(TripMonitorWords, message_lower) THEN "trip_monitor"
    ELSE IF AnyIn(DayOfWords, message_lower) THEN "day_of"
    ELSE "inspiration"

\* Words the classified messages are built from
IntentVocabulary ==
    <<"Goa", "delhi", "today", "may", "days", "month", "plan", "book",
      "visit", "weather", "now", "hello">>

\* Longest classified message, in words
MaxWords == 3

IntentMessages ==
    { Sentence([i \in DOMAIN ws |-> IntentVocabulary[ws[i]]]) :
        ws \in BoundedSeq(DOMAIN IntentVocabulary, MaxWords) }

(***************************************************************************)
(* Profile store: PersonalizedTravelAI (backend/api/personalized_ai.py)    *)
(*                                                                         *)
(* An enum member is written as its value string.  An Optional string that *)
(* is None is written None; last_interaction None is written NoTime.  A    *)
(* Python dict is a function on its keys.                                  *)
(***************************************************************************)
None == "None"

NoTime == 0 - 1

PersonalityTypes ==
    {"adventurous", "luxury", "budget", "cultural", "relaxed", "family",
     "business", "foodie", "photographer", "wellness", "backpacker",
     "romantic"}

CommunicationStyles ==
    {"formal", "casual", "enthusiastic", "professional", "friendly",
     "humorous", "detailed", "concise"}

\* the empty dict
EmptyDict == <<>>

\* dict.get(k, default)
Get(d, k, default) == IF k \in DOMAIN d THEN d[k] ELSE default

\* d[k] = v
Put(d, k, v) == (k :> v) @@ d

\* Python `x in list`
InList(x, list) == \E i \in DOMAIN list : list[i] = x

\* list(set(list)) keeps one copy of each element, in an order that the
\* string hashing of the run decides: any ordering of the distinct elements
ListOfSet(list) ==
    LET S == { list[i] : i \in DOMAIN list } IN
    { order \in [1..Cardinality(S) -> S] :
        \A i, j \in DOMAIN order : i # j => order[i] # order[j] }

\* UserProfile(...): the dataclass defaults and __post_init__; data holds the
\* keyword arguments get_or_create_user_profile passes
UserProfile(user_id, data) ==
    [ user_id              |-> user_id,
      name                 |-> Get(data, "name", None),
      age_group            |-> Get(data, "age_group", None),
      personality_type     |-> Get(data, "personality_type", "adventurous"),
      communication_style  |-> Get(data, "communication_style", "friendly"),
      budget_range         |-> Get(data, "budget_range", None),
      interests            |-> Get(data, "interests", <<>>),
      travel_history       |-> <<>>,
      conversation_history |-> <<>>,
      last_interaction     |-> NoTime,
      preferred_language   |-> Get(data, "preferred_language", "en"),
      voice_enabled        |-> Get(data, "voice_enabled", FALSE),
      feedback_history     |-> <<>>,
      satisfaction_scores  |-> <<>>,
      learning_insights    |-> EmptyDict ]

\* PersonalityType(value) / CommunicationStyle(value) raise ValueError on a
\* string that is no member value
EnumRaises(data) ==
    \/ Get(data, "personality_type", "adventurous") \notin PersonalityTypes
    \/ Get(data, "communication_style", "friendly") \notin CommunicationStyles

\* get_or_create_user_profile: the store afterwards, or the ValueError that
\* leaves it as it was (the constructor arguments are evaluated first)
get_or_create_user_profile(profiles, user_id, initial_data) ==
    IF user_id \in DOMAIN profiles
      THEN [raised |-> FALSE, profiles |-> profiles]
    ELSE IF EnumRaises(initial_data)
      THEN [raised |-> TRUE, profiles |-> profiles]
    ELSE [raised |-> FALSE,
          profiles |-> Put(profiles, user_id, UserProfile(user_id, initial_data))]

\* conversation_history keeps its last HistoryCap entries when it is cut
HistoryCap == 20

interest_keywords ==
    << [interest |-> "adventure",
        keywords |-> {"adventure", "hiking", "trekking", "extreme", "thrill",
                      "adrenaline", "climbing", "rafting"}],
       [interest |-> "luxury",
        keywords |-> {"luxury", "5-star", "premium", "spa", "resort",
                      "fine dining", "exclusive", "VIP"}],
       [interest |-> "culture",
        keywords |-> {"culture", "history", "museum", "heritage",
                      "traditional", "art", "architecture", "monument"}],
       [interest |-> "food",
        keywords |-> {"food", "cuisine", "restaurant", "local food",
                      "street food", "cooking", "taste", "flavor"}],
       [interest |-> "nightlife",
        keywords |-> {"nightlife", "party", "club", "bar", "entertainment",
                      "dance", "music", "drinks"}],
       [interest |-> "nature",
        keywords |-> {"nature", "wildlife", "safari", "beach", "mountain",
                      "forest", "lake", "river"}],
       [interest |-> "photography",
        keywords |-> {"photography", "photos", "instagram", "scenic",
                      "camera", "shoot", "capture", "golden hour"}],
       [interest |-> "family",
        keywords |-> {"family", "kids", "children", "family-friendly",
                      "playground", "educational", "safe"}],
       [interest |-> "wellness",
        keywords |-> {"wellness", "yoga", "meditation", "spa", "massage",
                      "detox", "health", "fitness"}],
       [interest |-> "backpacking",
        keywords |-> {"backpack", "hostel", "budget travel", "local",
                      "authentic", "independence", "solo"}],
       [interest |-> "romance",
        keywords |-> {"romantic", "couple", "honeymoon", "sunset", "intimate",
                      "cozy", "together", "love"}],
       [interest |-> "business",
        keywords |-> {"business", "conference", "meeting", "networking",
                      "work", "corporate", "professional"}] >>

BudgetWords == {"budget", "cheap", "affordable", "low cost"}

LuxuryWords == {"luxury", "premium", "expensive", "high-end"}

MidRangeWords == {"mid-range", "moderate", "reasonable"}

FormalWords == {"please", "kindly", "would you", "could you"}

EnthusiasticWords == {"awesome", "cool", "amazing", "wow"}

\* the user-message entry and a cut that keeps the first HistoryCap entries
record_user_message_keep_first(history, msg) ==
    LET h == Append(history, [type |-> "user", message |-> msg, timestamp |-> now]) IN
    IF Len(h) > HistoryCap THEN SubSeq(h, 1, HistoryCap) ELSE h

\* the user-message entry and the cut to the last HistoryCap entries
record_user_message(history, msg) ==
    LET h == Append(history, [type |-> "user", message |-> msg, timestamp |-> now]) IN
    IF Len(h) > HistoryCap THEN SubSeq(h, Len(h) - HistoryCap + 1, Len(h)) ELSE h

\* the loop over interest_keywords, from entry i on: a matched interest is
\* appended when it is not in the list yet
RECURSIVE add_matched_interests(_, _, _)
add_matched_interests(interests, message_lower, i) ==
    IF i > Len(interest_keywords) THEN interests
    ELSE LET e == interest_keywords[i]
             next == IF AnyIn(e.keywords, message_lower) /\ ~InList(e.interest, interests)
                       THEN Append(interests, e.interest)
                       ELSE interests
         IN add_matched_interests(next, message_lower, i + 1)

detect_budget(budget_range, message_lower) ==
    IF AnyIn(BudgetWords, message_lower) THEN "budget"
    ELSE IF AnyIn(LuxuryWords, message_lower) THEN "luxury"
    ELSE IF AnyIn(MidRangeWords, message_lower) THEN "mid-range"
    ELSE budget_range

detect_style(communication_style, message_lower) ==
    IF AnyIn(FormalWords, message_lower) THEN "formal"
    ELSE IF AnyIn(EnthusiasticWords, message_lower) THEN "enthusiastic"
    ELSE communication_style

\* analyze_user_intent_and_personality: the profile after the analysis
analyze_user_intent_and_personality(msg, p) ==
    LET message_lower == lower(chars(msg)) IN
    [p EXCEPT
       !.conversation_history = record_user_message(@, msg),
       !.interests = add_matched_interests(@, message_lower, 1),
       !.budget_range = detect_budget(@, message_lower),
       !.communication_style = detect_style(@, message_lower)]

\* _save_user_profile: user_<id>.json is rewritten when the id has a profile
save_user_profile(files, profiles, user_id) ==
    IF user_id \in DOMAIN profiles
      THEN Put(files, user_id, profiles[user_id])
      ELSE files

\* _save_user_profiles: user_profiles.pkl holds the whole store
save_user_profiles(profiles) == profiles

\* the except branch of generate_personalized_response: the failure is a
\* quota failure when its text holds "429" or, lower-cased, "quota"
is_quota_error(error_text) ==
    \/ Contains(chars("429"), chars(error_text))
    \/ Contains(chars("quota"), lower(chars(error_text)))

\* the generative call returned: no exception text
NoError == ""

(***************************************************************************)
(* Fallback synthesis: the answer built without the generative call.  A    *)
(* response text is the sequence of the fragments the f-strings join.      *)
(***************************************************************************)
\* the text with the given characters
text_of(cs) == CHOOSE s \in DOMAIN CharsOf : CharsOf[s] = cs

\* str.upper() on one character
upper_char(c) ==
    IF \E i \in DOMAIN LowerChars : LowerChars[i] = c
    THEN UpperChars[CHOOSE i \in DOMAIN LowerChars : LowerChars[i] = c]
    ELSE c

IsLetter(c) ==
    \E i \in DOMAIN LowerChars : LowerChars[i] = c \/ UpperChars[i] = c

\* str.title(): a letter that follows no letter is upper-cased, any other
\* letter lower-cased
title(cs) ==
    [i \in 1..Len(cs) |->
        IF i = 1 \/ ~IsLetter(cs[i - 1]) THEN upper_char(cs[i]) ELSE lower_char(cs[i])]

\* the keys of destination_intelligence, in the order of the dict
destination_keys == <<"goa", "kerala", "chennai">>

\* the titles a destination can take in a response
DestinationTitles == {"Goa", "Kerala", "Chennai", "General"}

destination_intelligence ==
    [ goa |->
        [ best_time |-> "November to March",
          signature_experiences |->
              <<"Beach hopping in North Goa",
                "Portuguese heritage tour in Old Goa",
                "Spice plantation visits",
                "Sunset cruises on Mandovi River",
                "Night markets in Anjuna">>,
          personality_matches |->
              [ adventurous |-> <<"Parasailing at Calangute", "Scuba diving at Grande Island">>,
                luxury |-> <<"Park Hyatt Goa Resort", "Taj Exotica Goa">>,
                cultural |-> <<"Basilica of Bom Jesus", "Goa State Museum">>,
                foodie |-> <<"Beach shacks for seafood", "Feni tasting tours">>,
                romantic |-> <<"Sunset at Chapora Fort", "Candlelight dinner on beach">> ],
          local_tips |->
              <<"Rent a scooter for easy transportation",
                "Try Goan fish curry and rice",
                "Bargain at local markets",
                "Respect local customs at religious sites">> ],
      kerala |->
        [ best_time |-> "October to March",
          signature_experiences |->
              <<"Houseboat cruise in Alleppey backwaters",
                "Tea plantation tours in Munnar",
                "Ayurveda treatments in Kovalam",
                "Kathakali dance performances",
                "Wildlife safari in Thekkady">>,
          personality_matches |->
              [ wellness |-> <<"Ayurveda retreats", "Yoga centers in Rishikesh">>,
                nature |-> <<"Periyar Wildlife Sanctuary", "Silent Valley National Park">>,
                luxury |-> <<"Kumarakom Lake Resort", "Taj Malabar Resort">>,
                cultural |-> <<"Jewish Synagogue in Kochi", "Mattancherry Palace">>,
                romantic |-> <<"Houseboat honeymoon", "Hill station retreats">> ],
          local_tips |->
              <<"Book houseboats in advance",
                "Try Kerala sadya (traditional meal)",
                "Carry light cotton clothes",
                "Learn basic Malayalam phrases">> ],
      chennai |->
        [ best_time |-> "November to February",
          signature_experiences |->
              <<"Marina Beach sunrise walks",
                "Kapaleeshwarar Temple visits",
                "Classical music concerts in December",
                "Traditional South Indian breakfast tours",
                "Government Museum explorations">>,
          personality_matches |->
              [ cultural |-> <<"Bharatanatyam performances", "Temple architecture tours">>,
                foodie |-> <<"Chettinad cuisine", "Filter coffee culture">>,
                business |-> <<"IT corridor networking", "Conference venues">>,
                family |-> <<"Birla Planetarium", "Guindy National Park">>,
                photographer |-> <<"Marina Beach sunsets", "Colonial architecture">> ],
          local_tips |->
              <<"Use Chennai Metro for easy travel",
                "Try authentic Tamil meals on banana leaf",
                "Respect temple dress codes",
                "Learn a few Tamil greetings">> ] ]

\* the loop over the keys, from key i on: the first key the message holds
RECURSIVE detect_destination(_, _)
detect_destination(message_lower, i) ==
    IF i > Len(destination_keys) THEN None
    ELSE IF Contains(chars(destination_keys[i]), message_lower) THEN destination_keys[i]
    ELSE detect_destination(message_lower, i + 1)

get_destination_intelligence(msg) ==
    LET detected_destination == detect_destination(lower(chars(msg)), 1) IN
    IF detected_destination # None
      THEN [destination |-> detected_destination,
            intelligence |-> destination_intelligence[detected_destination],
            has_specific_data |-> TRUE]
      ELSE [destination |-> "general",
            intelligence |-> EmptyDict,
            has_specific_data |-> FALSE]

_select_travel_agent_persona(p, message_lower) ==
    IF AnyIn({"inspire", "suggest", "idea", "where", "destination"}, message_lower)
      THEN "inspiration"
    ELSE IF AnyIn({"plan", "itinerary", "schedule", "organize"}, message_lower)
      THEN "planning"
    ELSE IF AnyIn({"luxury", "premium", "5-star", "exclusive"}, message_lower)
      THEN "luxury"
    ELSE IF AnyIn({"adventure", "thrill", "extreme", "outdoor"}, message_lower)
      THEN "adventure"
    ELSE IF AnyIn({"culture", "history", "heritage", "traditional"}, message_lower)
      THEN "cultural"
    ELSE IF p.personality_type = "luxury" THEN "luxury"
    ELSE IF p.personality_type = "adventurous" THEN "adventure"
    ELSE IF p.personality_type = "cultural" THEN "cultural"
    ELSE "general"

\* list[:n]
FirstN(list, n) == IF Len(list) <= n THEN list ELSE SubSeq(list, 1, n)

\* the opening of the response, by persona
persona_opening(agent_persona, name, destination) ==
    IF agent_persona = "inspiration" THEN
        <<"Travel Inspiration Agent here! Hey ", name,
          "! I'm absolutely excited to help you discover the magic of ", destination, "! ">>
    ELSE IF agent_persona = "planning" THEN
        <<"Travel Planning Agent at your service! Hi ", name,
          "! Let's turn your ", destination, " dreams into a concrete plan! ">>
    ELSE IF agent_persona = "luxury" THEN
        <<"Luxury Travel Specialist here! Welcome ", name,
          "! I specialize in creating extraordinary ", destination,
          " experiences that exceed expectations. ">>
    ELSE IF agent_persona = "adventure" THEN
        <<"Adventure Travel Expert ready! Hey there ", name,
          "! Ready for some epic ", destination, " adventures? ">>
    ELSE IF agent_persona = "cultural" THEN
        <<"Cultural Experience Curator here! Greetings ", name,
          "! Let me unveil the rich cultural tapestry of ", destination, " for you. ">>
    ELSE
        <<"Your Personal Travel Concierge! Hello ", name,
          "! I'm here to craft the perfect ", destination, " experience just for you! ">>

\* the part of the response built from the destination's intelligence
intel_section(intel, p, destination) ==
    LET personality_matches == Get(intel.personality_matches, p.personality_type, <<>>) IN
    <<"Must-Experience in ", destination, ": ">> \o FirstN(intel.signature_experiences, 3)
    \o (IF Len(personality_matches) > 0
          THEN <<"Perfect for your ", p.personality_type, " personality: ">>
               \o FirstN(personality_matches, 2)
          ELSE <<>>)
    \o <<"Insider Tips: ", intel.local_tips[1]>>
    \o (IF Len(intel.local_tips) > 1 THEN <<intel.local_tips[2]>> ELSE <<>>)
    \o <<"Best Time to Visit: ", intel.best_time>>

\* .value of an enum field raises AttributeError when the field holds a
\* plain string instead of a member
value_raises(p) ==
    \/ p.personality_type \notin PersonalityTypes
    \/ p.communication_style \notin CommunicationStyles

_generate_fallback_response(msg, p) ==
    LET message_lower == lower(chars(msg))
        name == IF p.name # None /\ p.name # "" THEN p.name ELSE "valued traveler"
        destination_intel == get_destination_intelligence(msg)
        destination == text_of(title(chars(destination_intel.destination)))
        agent_persona == _select_travel_agent_persona(p, message_lower)
    IN persona_opening(agent_persona, name, destination)
       \o (IF destination_intel.has_specific_data
             THEN intel_section(destination_intel.intelligence, p, destination)
             ELSE <<>>)
       \o <<"Why I'm perfect for you: ",
            "I remember you're a ", p.personality_type, " traveler",
            "Your ", p.communication_style, " communication style guides my responses">>
       \o (IF p.budget_range # None /\ p.budget_range # ""
             THEN <<"I focus on ", p.budget_range, " options that match your preferences">>
             ELSE <<>>)
       \o (IF Len(p.interests) > 0
             THEN <<"I know you love: ">> \o FirstN(p.interests, 3)
             ELSE <<>>)
       \o <<"Let's continue planning! I'm learning about your preferences with every conversation. ",
            "The more we chat, the better I become at creating your perfect ", destination,
            " experience!",
            "What would you like to know next?",
            "Detailed itinerary planning",
            "Specific accommodation recommendations",
            "Local dining and entertainment",
            "Transportation and logistics">>

\* the suggestions by personality type, interests and message, before the cut
base_suggestions(p, msg) ==
    LET message_lower == lower(chars(msg)) IN
    (IF p.personality_type = "adventurous" THEN
         <<"Show me adventure activities in this destination",
           "Find unique off-the-beaten-path experiences",
           "What are the most thrilling things to do here?">>
     ELSE IF p.personality_type = "luxury" THEN
         <<"Show premium resort options",
           "Find exclusive experiences and VIP services",
           "What are the most luxurious restaurants here?">>
     ELSE IF p.personality_type = "cultural" THEN
         <<"Explore local culture and traditions",
           "Find historical sites and museums",
           "What authentic local experiences are available?">>
     ELSE <<>>)
    \o (IF InList("food", p.interests)
          THEN <<"Discover the best local cuisine and food tours">> ELSE <<>>)
    \o (IF InList("photography", p.interests)
          THEN <<"Find the most Instagram-worthy spots">> ELSE <<>>)
    \o (IF InList("nature", p.interests)
          THEN <<"Explore natural attractions and wildlife">> ELSE <<>>)
    \o (IF Contains(chars("days"), message_lower)
          THEN <<"Create a detailed day-by-day itinerary">> ELSE <<>>)
    \o (IF AnyIn({"january", "february", "march", "april", "may", "june"}, message_lower)
          THEN <<"Check weather and seasonal highlights">> ELSE <<>>)

generate_personalized_suggestions_uncut(p, msg) == base_suggestions(p, msg)

generate_personalized_suggestions(p, msg) == FirstN(base_suggestions(p, msg), 7)

generate_personalized_bookings(p, msg) ==
    LET bookings ==
          (IF p.budget_range = "luxury" THEN
               << [type |-> "flight", option |-> "Business Class - Air India"],
                  [type |-> "hotel", option |-> "5-Star Resort & Spa"] >>
           ELSE IF p.budget_range = "budget" THEN
               << [type |-> "flight", option |-> "IndiGo - Economy"],
                  [type |-> "hotel", option |-> "Boutique Guesthouse"] >>
           ELSE
               << [type |-> "flight", option |-> "Vistara - Premium Economy"],
                  [type |-> "hotel", option |-> "4-Star Beach Resort"] >>)
          \o (IF InList("adventure", p.interests)
                THEN << [type |-> "activity", option |-> "Adventure Sports Package"] >>
              ELSE IF InList("culture", p.interests)
                THEN << [type |-> "activity", option |-> "Cultural Heritage Tour"] >>
              ELSE <<>>)
    IN FirstN(bookings, 5)

Min(a, b) == IF a < b THEN a ELSE b

\* calculate_personalization_score, in hundredths
calculate_personalization_score_uncapped(p) ==
      (IF p.name # None /\ p.name # "" THEN 10 ELSE 0)
    + (IF p.age_group # None /\ p.age_group # "" THEN 10 ELSE 0)
    + (IF p.budget_range # None /\ p.budget_range # "" THEN 15 ELSE 0)
    + Len(p.interests) * 5
    + Len(p.travel_history) * 3
    + Len(p.conversation_history) * 1
    + (IF p.last_interaction # NoTime /\ now - p.last_interaction < 7 THEN 10 ELSE 0)

calculate_personalization_score(p) ==
    LET score ==
          (IF p.name # None /\ p.name # "" THEN 10 ELSE 0)
        + (IF p.age_group # None /\ p.age_group # "" THEN 10 ELSE 0)
        + (IF p.budget_range # None /\ p.budget_range # "" THEN 15 ELSE 0)
        + Min(Len(p.interests) * 5, 20)
        + Min(Len(p.travel_history) * 3, 15)
        + Min(Len(p.conversation_history) * 1, 20)
        + (IF p.last_interaction # NoTime /\ now - p.last_interaction < 7 THEN 10 ELSE 0)
    IN Min(score, 100)

\* what a request leaves in `last`
Served(op, user_id, req, status, agent) ==
    [op |-> op, user |-> user_id, req |-> req, status |-> status,
     agent |-> agent, pre |-> user_profiles, out |-> EmptyDict]

\* the body generate_personalized_response returns for the profile p
response_body(response, p, msg) ==
    [response |-> response,
     suggestions |-> generate_personalized_suggestions(p, msg),
     booking_options |-> generate_personalized_bookings(p, msg),
     personalization_score |-> calculate_personalization_score(p),
     voice_response_available |-> p.voice_enabled]

\* generate_personalized_response for msg; reply is the text the generative
\* call returns and error_text the str() of what it raises (NoError: it
\* returns).  The result: the store afterwards, whether both saves ran, the
\* HTTP status (500: HTTPException raised) and the returned body.
generate_personalized_response(profiles, user_id, msg, reply, error_text) ==
    LET created  == get_or_create_user_profile(profiles, user_id, EmptyDict).profiles
        analysed == analyze_user_intent_and_personality(msg, created[user_id])
        answered == [analysed EXCEPT
                       !.conversation_history =
                           Append(@, [type |-> "ai", message |-> reply, timestamp |-> now]),
                       !.last_interaction = now]
    IN
    IF error_text = NoError THEN
        [status |-> 200, agent |-> "Personalized Gemini AI", saved |-> TRUE,
         profiles |-> [created EXCEPT ![user_id] = answered],
         out |-> response_body(<<reply>>, answered, msg)]
    ELSE IF is_quota_error(error_text) /\ ~value_raises(analysed) THEN
        [status |-> 200, agent |-> "Personalized Fallback Agent", saved |-> FALSE,
         profiles |-> [created EXCEPT ![user_id] = analysed],
         out |-> response_body(_generate_fallback_response(msg, analysed), analysed, msg)]
    ELSE
        [status |-> 500, agent |-> "none", saved |-> FALSE,
         profiles |-> [created EXCEPT ![user_id] = analysed],
         out |-> EmptyDict]

\* the store after generate_personalized_response with the result r
store_response(r, user_id) ==
    /\ user_profiles' = r.profiles
    /\ IF r.saved
         THEN /\ json_files' = save_user_profile(json_files, r.profiles, user_id)
              /\ pkl' = save_user_profiles(r.profiles)
         ELSE UNCHANGED <<pkl, json_files>>

VoiceLanguages == {"en-US", "en-GB", "hi-IN", "es-ES", "fr-FR", "de-DE"}

\* POST /api/personalized-chat.  get_personalized_ai() raises HTTPException
\* when the global is None; the handler's `except Exception` answers 500, and
\* its branch for a missing instance (the keyword orchestrator) is never
\* taken.  With the personalised AI initialised: when
\* the profile has voice enabled and a voice system exists the response is
\* spoken: VoiceLanguage(preferred_language or "en-US") raises ValueError
\* for a value that is no member, text_to_speech returns its audio or None.
personalized_chat(user_id, msg, reply, error_text, preferred_language) ==
    IF personalized_ai = None THEN
        /\ served' = served + 1
        /\ UNCHANGED <<fixedVars, in_flight, user_profiles, pkl, json_files>>
        /\ last' = Served("chat", user_id,
                          [message |-> msg, error |-> error_text,
                           preferred_language |-> preferred_language], 500, "none")
    ELSE
    \E r \in {generate_personalized_response(user_profiles, user_id, msg, reply, error_text)} :
    LET req    == [message |-> msg, error |-> error_text,
                   preferred_language |-> preferred_language]
        spoken == r.status = 200 /\ r.out.voice_response_available /\ voice_system # None
        language == IF preferred_language \in {None, ""} THEN "en-US" ELSE preferred_language
    IN
    /\ served' = served + 1
    /\ UNCHANGED <<fixedVars, in_flight>>
    /\ store_response(r, user_id)
    /\ IF r.status # 200 \/ (spoken /\ language \notin VoiceLanguages) THEN
           last' = Served("chat", user_id, req, 500, "none")
       ELSE
           \E audio_data \in (IF spoken THEN {None, "audio"} ELSE {None}) :
               last' = [Served("chat", user_id, req, 200, r.agent) EXCEPT
                          !.out = r.out @@ [voice_audio_data |-> audio_data]]

\* process start: PersonalizedTravelAI.__init__ loads user_profiles.pkl
restart ==
    /\ user_profiles' = pkl
    /\ last' = Served("restart", "none", EmptyDict, 200, "none")
    /\ served' = served + 1
    /\ UNCHANGED <<fixedVars, in_flight, pkl, json_files>>

\* the enum branches of update_user_profile: the member for a valid value,
\* the old member (and a logged warning) for any other string
update_enum_unchecked(old, value, members) == value

update_enum(old, value, members) ==
    IF value \in members THEN value ELSE old

\* the interests branch of update_user_profile: list(set(old + value))
merge_interests_replace(p, updates) ==
    IF "interests" \in DOMAIN updates
      THEN ListOfSet(updates["interests"])
      ELSE {p.interests}

merge_interests(p, updates) ==
    IF "interests" \in DOMAIN updates
      THEN ListOfSet(p.interests \o updates["interests"])
      ELSE {p.interests}

\* the loop of update_user_profile over the items of updates, for a profile
\* that exists; interests is the merged list.  Every other attribute of the
\* profile that updates names is set to the value given (setattr).
apply_updates(p, updates, interests) ==
    [p EXCEPT
       !.interests = interests,
       !.personality_type =
           IF "personality_type" \in DOMAIN updates
             THEN update_enum(@, updates["personality_type"], PersonalityTypes)
             ELSE @,
       !.communication_style =
           IF "communication_style" \in DOMAIN updates
             THEN update_enum(@, updates["communication_style"], CommunicationStyles)
             ELSE @,
       !.travel_history = @ \o Get(updates, "travel_history", <<>>),
       !.name = Get(updates, "name", @),
       !.age_group = Get(updates, "age_group", @),
       !.budget_range = Get(updates, "budget_range", @),
       !.preferred_language = Get(updates, "preferred_language", @),
       !.voice_enabled = Get(updates, "voice_enabled", @),
       !.user_id = Get(updates, "user_id", @),
       !.conversation_history = Get(updates, "conversation_history", @),
       !.last_interaction = Get(updates, "last_interaction", @),
       !.feedback_history = Get(updates, "feedback_history", @),
       !.satisfaction_scores = Get(updates, "satisfaction_scores", @),
       !.learning_insights = Get(updates, "learning_insights", @)]

\* what update_user_profile does after the profile is created or updated:
\* both saves, and the endpoint answers 200
commit_update(user_id, updates, profiles) ==
    /\ user_profiles' = profiles
    /\ json_files' = save_user_profile(json_files, profiles, user_id)
    /\ pkl' = save_user_profiles(profiles)
    /\ last' = Served("update", user_id, updates, 200, "none")

\* POST /api/user-profile: updates holds the fields of the request that are
\* not None, without user_id
update_user_profile(user_id, updates) ==
    /\ served' = served + 1
    /\ UNCHANGED <<fixedVars, in_flight>>
    /\ IF user_id \notin DOMAIN user_profiles THEN
           LET r == get_or_create_user_profile(user_profiles, user_id, updates) IN
           IF r.raised THEN
               /\ last' = Served("update", user_id, updates, 500, "none")
               /\ UNCHANGED <<user_profiles, pkl, json_files>>
           ELSE commit_update(user_id, updates, r.profiles)
       ELSE
           \E interests \in merge_interests(user_profiles[user_id], updates) :
               commit_update(user_id, updates,
                   [user_profiles EXCEPT
                      ![user_id] = apply_updates(@, updates, interests)])

(***************************************************************************)
(* Feedback learner: process_user_feedback and its helpers.  A rating is   *)
(* carried as the text of the JSON value; a score is a whole number; an    *)
(* average is the exact fraction [num, den].                               *)
(***************************************************************************)
DigitValue ==
    ("0" :> 0) @@ ("1" :> 1) @@ ("2" :> 2) @@ ("3" :> 3) @@ ("4" :> 4) @@
    ("5" :> 5) @@ ("6" :> 6) @@ ("7" :> 7) @@ ("8" :> 8) @@ ("9" :> 9)

\* float(x) raises ValueError unless x reads as a number (here: one digit)
float_raises(text) ==
    ~(Len(chars(text)) = 1 /\ chars(text)[1] \in DOMAIN DigitValue)

\* float(x)
float(text) == DigitValue[chars(text)[1]]

RECURSIVE SumSeq(_)
SumSeq(s) == IF Len(s) = 0 THEN 0 ELSE Head(s) + SumSeq(Tail(s))

\* s[-n:]
LastN(s, n) == IF Len(s) <= n THEN s ELSE SubSeq(s, Len(s) - n + 1, Len(s))

\* list.remove(x): the first occurrence goes
RemoveFirst(list, x) ==
    LET i == CHOOSE k \in DOMAIN list : list[k] = x /\ \A j \in 1..(k - 1) : list[j] # x
    IN SubSeq(list, 1, i - 1) \o SubSeq(list, i + 1, Len(list))

\* dict[key].append(entry), the list created when the key is missing
AppendTo(d, key, entry) == Put(d, key, Append(Get(d, key, <<>>), entry))

\* one pass of the loop of _reinforce_positive_patterns over a suggestion
reinforce_interest(interests, suggestion) ==
    LET suggestion_lower == lower(chars(suggestion)) IN
    IF Contains(chars("adventure"), suggestion_lower) /\ ~InList("adventure", interests)
      THEN Append(interests, "adventure")
    ELSE IF Contains(chars("luxury"), suggestion_lower) /\ ~InList("luxury", interests)
      THEN Append(interests, "luxury")
    ELSE IF Contains(chars("culture"), suggestion_lower) /\ ~InList("culture", interests)
      THEN Append(interests, "culture")
    ELSE interests

RECURSIVE reinforce_interests(_, _)
reinforce_interests(interests, suggestions) ==
    IF Len(suggestions) = 0 THEN interests
    ELSE reinforce_interests(reinforce_interest(interests, Head(suggestions)),
                             Tail(suggestions))

_reinforce_positive_patterns(p, feedback_data) ==
    LET interests == IF "liked_suggestions" \in DOMAIN feedback_data
                       THEN reinforce_interests(p.interests, feedback_data["liked_suggestions"])
                       ELSE p.interests
    IN [p EXCEPT
          !.interests = interests,
          !.learning_insights =
              AppendTo(@, "successful_patterns",
                  [timestamp |-> now,
                   personality_type |-> p.personality_type,
                   communication_style |-> p.communication_style,
                   interests |-> interests,
                   feedback |-> feedback_data])]

\* _adjust_for_negative_feedback with "too_casual" acted on for any style
_adjust_for_negative_feedback_any_style(p, feedback_data) ==
    LET tone  == Get(feedback_data, "disliked_tone", None)
        style == IF "disliked_tone" \notin DOMAIN feedback_data THEN p.communication_style
                 ELSE IF tone = "too_casual" THEN "professional"
                 ELSE IF tone = "too_formal" /\ p.communication_style = "formal"
                   THEN "friendly"
                 ELSE IF tone = "too_enthusiastic" THEN "professional"
                 ELSE p.communication_style
    IN [p EXCEPT
          !.communication_style = style,
          !.learning_insights =
              AppendTo(@, "unsuccessful_patterns",
                  [timestamp |-> now,
                   personality_type |-> p.personality_type,
                   communication_style |-> style,
                   feedback |-> feedback_data])]

_adjust_for_negative_feedback(p, feedback_data) ==
    LET tone  == Get(feedback_data, "disliked_tone", None)
        style == IF "disliked_tone" \notin DOMAIN feedback_data THEN p.communication_style
                 ELSE IF tone = "too_casual" /\ p.communication_style = "casual"
                   THEN "professional"
                 ELSE IF tone = "too_formal" /\ p.communication_style = "formal"
                   THEN "friendly"
                 ELSE IF tone = "too_enthusiastic" THEN "professional"
                 ELSE p.communication_style
    IN [p EXCEPT
          !.communication_style = style,
          !.learning_insights =
              AppendTo(@, "unsuccessful_patterns",
                  [timestamp |-> now,
                   personality_type |-> p.personality_type,
                   communication_style |-> style,
                   feedback |-> feedback_data])]

\* the loop of _process_detailed_feedback over a copy of the interests, from
\* entry i on: an interest named in the text is removed and noted
RECURSIVE prune_interests(_, _, _, _, _)
prune_interests(interests, insights, copy, feedback_text, i) ==
    IF i > Len(copy) THEN [interests |-> interests, insights |-> insights]
    ELSE IF Contains(chars(copy[i]), feedback_text)
      THEN prune_interests(RemoveFirst(interests, copy[i]),
                           Put(insights, "removed_interest", copy[i]),
                           copy, feedback_text, i + 1)
    ELSE prune_interests(interests, insights, copy, feedback_text, i + 1)

_process_detailed_feedback(p, feedback_data) ==
    LET feedback_text == lower(chars(Get(feedback_data, "feedback_text", "")))
        to_budget == AnyIn({"too expensive", "costly", "price"}, feedback_text)
        to_luxury == ~to_budget /\ AnyIn({"luxurious", "premium", "high-end"}, feedback_text)
        budget == IF to_budget THEN "budget"
                  ELSE IF to_luxury THEN "luxury"
                  ELSE p.budget_range
        insights1 ==
            IF to_budget /\ p.budget_range # "budget"
              THEN Put(EmptyDict, "budget_adjusted",
                       "Changed to budget-conscious based on feedback")
            ELSE IF to_luxury /\ p.budget_range # "luxury"
              THEN Put(EmptyDict, "budget_adjusted", "Changed to luxury based on feedback")
            ELSE EmptyDict
        pruned ==
            IF Contains(chars("boring"), feedback_text)
                 \/ Contains(chars("not interested"), feedback_text)
              THEN prune_interests(p.interests, insights1, p.interests, feedback_text, 1)
              ELSE [interests |-> p.interests, insights |-> insights1]
    IN [p EXCEPT
          !.budget_range = budget,
          !.interests = pruned.interests,
          !.learning_insights = pruned.insights @@ @]

_extract_preference_from_correction(original, corrected) ==
    LET original_lower == lower(chars(original))
        corrected_lower == lower(chars(corrected))
    IN IF Contains(chars("budget"), corrected_lower) /\ Contains(chars("luxury"), original_lower)
         THEN "prefers_budget_over_luxury"
       ELSE IF Contains(chars("luxury"), corrected_lower) /\ Contains(chars("budget"), original_lower)
         THEN "prefers_luxury_over_budget"
       ELSE IF Contains(chars("adventure"), corrected_lower)
         THEN "prefers_adventure_activities"
       ELSE IF Contains(chars("cultural"), corrected_lower)
         THEN "prefers_cultural_experiences"
       ELSE "preference_learned_from_correction"

_process_correction_feedback(p, feedback_data) ==
    LET original_suggestion == Get(feedback_data, "original_suggestion", "")
        corrected_suggestion == Get(feedback_data, "corrected_suggestion", "")
    IN [p EXCEPT
          !.learning_insights =
              AppendTo(@, "corrections",
                  [timestamp |-> now,
                   original |-> original_suggestion,
                   corrected |-> corrected_suggestion,
                   learned_preference |->
                       _extract_preference_from_correction(original_suggestion,
                                                           corrected_suggestion)])]

\* _update_learning_insights with the trend taken over every score
_update_learning_insights_all_scores(p) ==
    LET recent_scores == p.satisfaction_scores
        trended ==
            IF Len(p.satisfaction_scores) > 0
              THEN Put(p.learning_insights, "satisfaction_trend",
                       [average |-> [num |-> SumSeq(recent_scores), den |-> Len(recent_scores)],
                        improving |-> Len(recent_scores) >= 2
                                      /\ recent_scores[Len(recent_scores)] > recent_scores[1],
                        total_feedback_count |-> Len(p.satisfaction_scores)])
              ELSE p.learning_insights
        milestoned ==
            IF Len(p.feedback_history) % 10 = 0 /\ Len(p.feedback_history) > 0
              THEN Put(trended, "milestone",
                       [feedback_count |-> Len(p.feedback_history),
                        reached_at |-> now,
                        personalization_score |-> calculate_personalization_score(p)])
              ELSE trended
    IN [p EXCEPT !.learning_insights = milestoned]

_update_learning_insights(p) ==
    LET recent_scores == LastN(p.satisfaction_scores, 5)
        trended ==
            IF Len(p.satisfaction_scores) > 0
              THEN Put(p.learning_insights, "satisfaction_trend",
                       [average |-> [num |-> SumSeq(recent_scores), den |-> Len(recent_scores)],
                        improving |-> Len(recent_scores) >= 2
                                      /\ recent_scores[Len(recent_scores)] > recent_scores[1],
                        total_feedback_count |-> Len(p.satisfaction_scores)])
              ELSE p.learning_insights
        milestoned ==
            IF Len(p.feedback_history) % 10 = 0 /\ Len(p.feedback_history) > 0
              THEN Put(trended, "milestone",
                       [feedback_count |-> Len(p.feedback_history),
                        reached_at |-> now,
                        personalization_score |-> calculate_personalization_score(p)])
              ELSE trended
    IN [p EXCEPT !.learning_insights = milestoned]

\* the branch of process_user_feedback on feedback_type, after the entry is
\* appended: the profile it leaves, or raised when float() fails
feedback_branch(p, feedback_type, feedback_data) ==
    IF feedback_type = "rating" THEN
        LET text == Get(feedback_data, "rating", "3") IN
        IF float_raises(text) THEN [raised |-> TRUE, profile |-> p]
        ELSE LET rating == float(text)
                 scored == [p EXCEPT !.satisfaction_scores = Append(@, rating)]
             IN [raised |-> FALSE,
                 profile |-> IF rating >= 4 THEN _reinforce_positive_patterns(scored, feedback_data)
                             ELSE IF rating <= 2 THEN _adjust_for_negative_feedback(scored, feedback_data)
                             ELSE scored]
    ELSE IF feedback_type = "thumbs" THEN
        LET rating == IF Get(feedback_data, "thumbs", None) = "up" THEN 4 ELSE 2 IN
        [raised |-> FALSE, profile |-> [p EXCEPT !.satisfaction_scores = Append(@, rating)]]
    ELSE IF feedback_type = "detailed" THEN
        [raised |-> FALSE, profile |-> _process_detailed_feedback(p, feedback_data)]
    ELSE IF feedback_type = "correction" THEN
        [raised |-> FALSE, profile |-> _process_correction_feedback(p, feedback_data)]
    ELSE [raised |-> FALSE, profile |-> p]

\* POST /api/user-feedback
process_user_feedback(user_id, feedback_type, feedback_data, response_id) ==
    LET req == [type |-> feedback_type, data |-> feedback_data, response_id |-> response_id] IN
    /\ served' = served + 1
    /\ UNCHANGED <<fixedVars, in_flight, pkl>>
    /\ IF user_id \notin DOMAIN user_profiles THEN
           /\ last' = Served("feedback", user_id, req, 404, "none")
           /\ UNCHANGED <<user_profiles, json_files>>
       ELSE
           LET entered == [user_profiles[user_id] EXCEPT
                             !.feedback_history =
                                 Append(@, [timestamp |-> now, type |-> feedback_type,
                                            data |-> feedback_data,
                                            response_id |-> response_id])]
               r == feedback_branch(entered, feedback_type, feedback_data)
           IN IF r.raised THEN
                  /\ user_profiles' = [user_profiles EXCEPT ![user_id] = r.profile]
                  /\ last' = Served("feedback", user_id, req, 500, "none")
                  /\ UNCHANGED json_files
              ELSE
                  LET profiles == [user_profiles EXCEPT
                                     ![user_id] = _update_learning_insights(r.profile)]
                  IN /\ user_profiles' = profiles
                     /\ json_files' = save_user_profile(json_files, profiles, user_id)
                     /\ last' = Served("feedback", user_id, req, 200, "none")

\* GET /api/user-stats/{user_id}: a read of the profile, 404 for an id that
\* has none
get_user_stats_creating(user_id) ==
    LET profiles == get_or_create_user_profile(user_profiles, user_id, EmptyDict).profiles
        profile  == profiles[user_id]
    IN
    /\ served' = served + 1
    /\ user_profiles' = profiles
    /\ UNCHANGED <<fixedVars, in_flight, pkl, json_files>>
    /\ last' = [Served("stats", user_id, EmptyDict, 200, "none") EXCEPT
                  !.out = [profile_completeness |-> calculate_personalization_score(profile),
                           total_conversations |-> Len(profile.conversation_history),
                           interests_discovered |-> Len(profile.interests),
                           trips_planned |-> Len(profile.travel_history),
                           last_interaction |-> profile.last_interaction,
                           personality_type |-> profile.personality_type,
                           communication_style |-> profile.communication_style,
                           voice_enabled |-> profile.voice_enabled]]

get_user_stats(user_id) ==
    /\ served' = served + 1
    /\ UNCHANGED <<fixedVars, in_flight, user_profiles, pkl, json_files>>
    /\ IF user_id \notin DOMAIN user_profiles THEN
           last' = Served("stats", user_id, EmptyDict, 404, "none")
       ELSE
           LET profile == user_profiles[user_id] IN
           last' = [Served("stats", user_id, EmptyDict, 200, "none") EXCEPT
                      !.out = [profile_completeness |-> calculate_personalization_score(profile),
                               total_conversations |-> Len(profile.conversation_history),
                               interests_discovered |-> Len(profile.interests),
                               trips_planned |-> Len(profile.travel_history),
                               last_interaction |-> profile.last_interaction,
                               personality_type |-> profile.personality_type,
                               communication_style |-> profile.communication_style,
                               voice_enabled |-> profile.voice_enabled]]

(***************************************************************************)
(* Overlapping chats.  generate_personalized_response awaits the           *)
(* generative call (asyncio.to_thread); the event loop runs other requests *)
(* meanwhile.  The handler is two steps: up to the await, and from the     *)
(* call's return on.  An in-flight request keeps the profile as it left it *)
(* (seen).                                                                 *)
(***************************************************************************)
\* up to the await: the profile is fetched or created and the message
\* analysed
chat_begin(user_id, msg) ==
    LET created  == get_or_create_user_profile(user_profiles, user_id, EmptyDict).profiles
        analysed == analyze_user_intent_and_personality(msg, created[user_id])
    IN
    /\ user_profiles' = [created EXCEPT ![user_id] = analysed]
    /\ in_flight' = Append(in_flight, [user |-> user_id, message |-> msg, seen |-> analysed])
    /\ UNCHANGED <<fixedVars, pkl, json_files, served, last>>

\* the generative call of the i-th request in flight returns reply: the AI
\* entry and last_interaction are recorded on the profile object, both saves
\* run, the body is returned (no voice system: nothing is spoken)
chat_end(i, reply) ==
    LET request  == in_flight[i]
        answered == [user_profiles[request.user] EXCEPT
                       !.conversation_history =
                           Append(@, [type |-> "ai", message |-> reply, timestamp |-> now]),
                       !.last_interaction = now]
        r == [status |-> 200, agent |-> "Personalized Gemini AI", saved |-> TRUE,
              profiles |-> [user_profiles EXCEPT ![request.user] = answered],
              out |-> response_body(<<reply>>, answered, request.message)]
    IN
    /\ voice_system = None
    /\ store_response(r, request.user)
    /\ in_flight' = SubSeq(in_flight, 1, i - 1) \o SubSeq(in_flight, i + 1, Len(in_flight))
    /\ served' = served + 1
    /\ last' = [Served("chat", request.user,
                       [message |-> request.message, error |-> NoError,
                        preferred_language |-> "en-US"], 200, r.agent)
                  EXCEPT !.out = r.out @@ [voice_audio_data |-> None]]
    /\ UNCHANGED fixedVars

(***************************************************************************)
(* Voice: POST /api/voice-chat                                             *)
(***************************************************************************)
\* the characters base64.b64decode keeps; it discards any other character
Base64Chars ==
    { UpperChars[i] : i \in DOMAIN UpperChars } \cup { LowerChars[i] : i \in DOMAIN LowerChars }
        \cup DOMAIN DigitValue \cup {"+", "/"}

\* the decoding of request.audio_data raises (a payload without "="): a
\* data: URL without a comma has no split(',')[1]; the text is padded to a
\* multiple of four; the decoder drops the characters outside the alphabet
\* and raises when the rest does not end on a full or properly padded group
b64decode_raises(audio_data) ==
    LET cs     == chars(audio_data)
        is_url == Len(cs) >= 5 /\ SubSeq(cs, 1, 5) = chars("data:")
        commas == { i \in DOMAIN cs : cs[i] = "," }
        first  == CHOOSE i \in commas : \A j \in commas : i <= j
        later  == { i \in commas : i > first }
        second == IF later = {} THEN Len(cs) + 1
                  ELSE CHOOSE i \in later : \A j \in later : i <= j
        body   == IF is_url THEN SubSeq(cs, first + 1, second - 1) ELSE cs
        pads   == (4 - (Len(body) % 4)) % 4
        rest   == Cardinality({ i \in DOMAIN body : body[i] \in Base64Chars }) % 4
    IN IF is_url /\ commas = {} THEN TRUE
       ELSE rest = 1 \/ (rest = 2 /\ pads < 2) \/ (rest = 3 /\ pads < 1)

\* POST /api/voice-chat; text is what the speech recognition returns (None:
\* an error).  The handler raises HTTPException 503 without a voice system
\* and 400 for audio that does not decode or is not recognised; its outer
\* `except Exception` catches each of them and raises HTTPException 500.
voice_chat(user_id, audio_data, language, text, reply, error_text) ==
    LET req    == [audio_data |-> audio_data, language |-> language]
        raised == IF voice_system = None THEN 503
                  ELSE IF b64decode_raises(audio_data) THEN 400
                  ELSE IF text = None THEN 400
                  ELSE 0
    IN
    /\ served' = served + 1
    /\ UNCHANGED <<fixedVars, in_flight>>
    /\ IF raised # 0 THEN
           /\ last' = Served("voice", user_id, req, 500, "none")
           /\ UNCHANGED <<user_profiles, pkl, json_files>>
       ELSE
           \E r \in {generate_personalized_response(user_profiles, user_id, text, reply, error_text)} :
           /\ store_response(r, user_id)
           /\ IF r.status # 200 \/ language \notin VoiceLanguages THEN
                  last' = Served("voice", user_id, req, 500, "none")
              ELSE
                  \E voice_audio_data \in {None, "audio"} :
                      last' = [Served("voice", user_id, req, 200, r.agent) EXCEPT
                                 !.out = r.out @@ [text_input |-> text,
                                                   voice_audio_data |-> voice_audio_data]]
(***************************************************************************)
(* Specifications                                                          *)
(***************************************************************************)
\* booking_agent: its booking options (type and option of each entry)
booking_options ==
    << [type |-> "flight", option |-> "Air India Express"],
       [type |-> "hotel", option |-> "Taj Exotica Resort"],
       [type |-> "activity", option |-> "Spice Plantation Tour"] >>

\* multi_agent_handler: its booking options
enhanced_booking_options_no_flight ==
    << [type |-> "hotel", option |-> "Taj Exotica Resort & Spa"],
       [type |-> "hotel", option |-> "Alila Diwa Resort"],
       [type |-> "activity", option |-> "Complete Goa Experience Package"],
       [type |-> "transport", option |-> "Rent a Scooter"] >>

enhanced_booking_options ==
    << [type |-> "flight", option |-> "Air India Express"],
       [type |-> "hotel", option |-> "Taj Exotica Resort & Spa"],
       [type |-> "hotel", option |-> "Alila Diwa Resort"],
       [type |-> "activity", option |-> "Complete Goa Experience Package"],
       [type |-> "transport", option |-> "Rent a Scooter"] >>

\* TravelAgentOrchestrator.process_message: classify the pending message and
\* run the agent of that label; of the agent's result the booking options
\* are kept, as POST /api/chat returns them (result.get("booking_options", []))
process_message ==
    /\ intent = "none"
    /\ intent' = detect_intent(message)
    /\ last' = [Served("message", "none", EmptyDict, 200,
                       IF intent' = "multi_agent" THEN "Multi-Agent System"
                       ELSE text_of(title(chars(intent'))))
                  EXCEPT !.out = [booking_options |->
                                     IF intent' = "multi_agent" THEN enhanced_booking_options
                                     ELSE IF intent' = "booking" THEN booking_options
                                     ELSE <<>>]]
    /\ UNCHANGED <<message, user_profiles, pkl, json_files, now, served, in_flight, voice_system,
                   personalized_ai, active_connections, handler>>

\* the websockets that clients open on /ws/chat
WebSockets == {"w1", "w2", "w3"}

InitStore ==
    /\ user_profiles = EmptyDict
    /\ pkl = EmptyDict
    /\ json_files = EmptyDict
    /\ now = 0
    /\ served = 0
    /\ in_flight = <<>>
    /\ voice_system = None
    /\ personalized_ai = "ready"
    /\ active_connections = <<>>
    /\ handler = [websocket \in WebSockets |-> "idle"]
    /\ last = [op |-> "init", user |-> "none", req |-> EmptyDict, status |-> 200,
               agent |-> "none", pre |-> EmptyDict, out |-> EmptyDict]

Init ==
    /\ message = <<>>
    /\ intent = "none"
    /\ InitStore

\* The classifier is a pure function of the text: every bounded message is
\* an initial input and the one action classifies it.
InitIntent ==
    /\ message \in IntentMessages
    /\ intent = "none"
    /\ InitStore

\* the agent names process_message derives from a label
AgentTitles ==
    {"Planning", "Booking", "Poi", "Trip_Monitor", "Day_Of", "Inspiration", "Place"}

NextIntent == process_message

SpecIntent == InitIntent /\ [][NextIntent]_vars

\* Texts the generative call returns
Replies == {"Here is your plan"}

\* str() of the exceptions the generative call raises
ErrorTexts == {"429 Resource exhausted", "Quota exceeded", "503 unavailable"}

\* Conversation-history runs: one user chatting on
HistMessages == {"hello"}

HistErrors == {NoError, "Quota exceeded"}

\* Requests served in a conversation-history run
MaxChats == 12

ChatOn ==
    /\ served < MaxChats
    /\ \E msg \in HistMessages, reply \in Replies, err \in HistErrors :
           personalized_chat("u1", msg, reply, err, "en-US")

NextHist == ChatOn

SpecHist == Init /\ [][NextHist]_vars

\* Fallback runs: a user whose profile was filled in by earlier requests
\* chats while the generative call is out of quota
FallbackInterests ==
    { <<>>, <<"culture">>, <<"adventure", "culture">>,
      <<"food", "photography", "nature">> }

FallbackProfiles ==
    { [UserProfile("u1", EmptyDict) EXCEPT
         !.personality_type = t, !.budget_range = b, !.interests = i, !.name = n] :
        t \in PersonalityTypes,
        b \in {None, "budget", "luxury", "mid-range"},
        i \in FallbackInterests,
        n \in {None, "Asha"} }

FallbackMessages ==
    { "hello", "10 days in May", "Plan 10 days in Goa in May",
      "Kerala heritage tour" }

\* Requests served in a fallback run
MaxFallbacks == 1

InitFallback ==
    /\ message = <<>>
    /\ intent = "none"
    /\ user_profiles \in { ("u1" :> p) : p \in FallbackProfiles }
    /\ pkl = user_profiles
    /\ json_files = user_profiles
    /\ now = 0
    /\ served = 0
    /\ in_flight = <<>>
    /\ voice_system = None
    /\ personalized_ai = "ready"
    /\ active_connections = <<>>
    /\ handler = [websocket \in WebSockets |-> "idle"]
    /\ last = [op |-> "init", user |-> "none", req |-> EmptyDict, status |-> 200,
               agent |-> "none", pre |-> EmptyDict, out |-> EmptyDict]

FallbackChat ==
    /\ served < MaxFallbacks
    /\ \E msg \in FallbackMessages, reply \in Replies :
           personalized_chat("u1", msg, reply, "Quota exceeded", "en-US")

NextFallback == FallbackChat

SpecFallback == InitFallback /\ [][NextFallback]_vars

\* Booking runs: a message for the orchestrator and a user with any budget
\* and interests who chats
\* Requests served in a booking run
MaxBookingChats == 1

InitBookings ==
    /\ message \in { chars(t) : t \in FallbackMessages }
    /\ intent = "none"
    /\ user_profiles \in
           { ("u1" :> p) : p \in { q \in FallbackProfiles :
                                       q.personality_type = "adventurous" /\ q.name = None } }
    /\ pkl = user_profiles
    /\ json_files = user_profiles
    /\ now = 0
    /\ served = 0
    /\ in_flight = <<>>
    /\ voice_system = None
    /\ personalized_ai = "ready"
    /\ active_connections = <<>>
    /\ handler = [websocket \in WebSockets |-> "idle"]
    /\ last = [op |-> "init", user |-> "none", req |-> EmptyDict, status |-> 200,
               agent |-> "none", pre |-> EmptyDict, out |-> EmptyDict]

BookingChat ==
    /\ served < MaxBookingChats
    /\ \E msg \in HistMessages, reply \in Replies, err \in HistErrors :
           personalized_chat("u1", msg, reply, err, "en-US")

NextBookings == process_message \/ BookingChat

SpecBookings == InitBookings /\ [][NextBookings]_vars

\* Profile-store runs: one user, every kind of request
ChatMessages == {"Cheap hiking please", "wow luxury spa in Goa"}

UpdateRequests ==
    { [interests |-> <<"beach", "beach">>],
      [interests |-> <<"adventure", "beach">>, name |-> "Asha"],
      [personality_type |-> "invalid_value", name |-> "Asha"],
      [personality_type |-> "luxury", communication_style |-> "casual"],
      [communication_style |-> "invalid_value", budget_range |-> "mid-range"] }

FeedbackRequests ==
    { [type |-> "rating",
       data |-> [rating |-> "5",
                 liked_suggestions |-> <<"Adventure activities", "Luxury culture tour">>]],
      [type |-> "rating",
       data |-> [rating |-> "1", disliked_tone |-> "too_enthusiastic"]],
      [type |-> "rating", data |-> [rating |-> "3"]],
      [type |-> "thumbs", data |-> [thumbs |-> "up"]],
      [type |-> "detailed",
       data |-> [feedback_text |-> "Boring beach and too expensive"]],
      [type |-> "correction",
       data |-> [original_suggestion |-> "luxury hotel",
                 corrected_suggestion |-> "budget hostel"]] }

\* Requests served in a profile-store run
MaxRequests == 3

Chat ==
    /\ served < MaxRequests
    /\ \E msg \in ChatMessages, reply \in Replies, err \in ErrorTexts \cup {NoError} :
           personalized_chat("u1", msg, reply, err, "en-US")

Update ==
    /\ served < MaxRequests
    /\ \E updates \in UpdateRequests : update_user_profile("u1", updates)

Feedback ==
    /\ served < MaxRequests
    /\ \E f \in FeedbackRequests : process_user_feedback("u1", f.type, f.data, None)

Restart ==
    /\ served < MaxRequests
    /\ restart

Next == Chat \/ Update \/ Feedback \/ Restart

Spec == Init /\ [][Next]_vars

\* Lookup runs: two users; each may chat, be looked up and send feedback
LookupUsers == {"u1", "u2"}

LookupChat ==
    /\ served < MaxRequests
    /\ \E user_id \in LookupUsers, msg \in HistMessages, reply \in Replies :
           personalized_chat(user_id, msg, reply, NoError, "en-US")

LookupStats ==
    /\ served < MaxRequests
    /\ \E user_id \in LookupUsers : get_user_stats(user_id)

LookupFeedback ==
    /\ served < MaxRequests
    /\ \E user_id \in LookupUsers, f \in FeedbackRequests :
           process_user_feedback(user_id, f.type, f.data, None)

SpecLookup == Init /\ [][LookupChat \/ LookupStats \/ LookupFeedback]_vars

\* Score runs: the statistics of a user whose profile is filled in to any
\* degree, read on the day of the last interaction or ten days later
Filled(n, entry) == [i \in 1..n |-> entry]

ScoreProfiles ==
    { [UserProfile("u1", EmptyDict) EXCEPT
         !.name = name, !.age_group = age_group, !.budget_range = budget_range,
         !.interests = Filled(interests, "food"),
         !.travel_history = Filled(trips, [destination |-> "Goa"]),
         !.conversation_history =
             Filled(entries, [type |-> "user", message |-> "hello", timestamp |-> 0]),
         !.last_interaction = last_interaction] :
        name \in {None, "Asha"}, age_group \in {None, "26-35"},
        budget_range \in {None, "luxury"}, interests \in {0, 3, 4, 5},
        trips \in {0, 4, 5}, entries \in {0, 19, 20}, last_interaction \in {NoTime, 0} }

\* Lookups served in a score run
MaxStats == 1

InitScore ==
    /\ message = <<>>
    /\ intent = "none"
    /\ user_profiles \in { ("u1" :> p) : p \in ScoreProfiles }
    /\ pkl = user_profiles
    /\ json_files = user_profiles
    /\ now \in {0, 10}
    /\ served = 0
    /\ in_flight = <<>>
    /\ voice_system = None
    /\ personalized_ai = "ready"
    /\ active_connections = <<>>
    /\ handler = [websocket \in WebSockets |-> "idle"]
    /\ last = [op |-> "init", user |-> "none", req |-> EmptyDict, status |-> 200,
               agent |-> "none", pre |-> EmptyDict, out |-> EmptyDict]

ScoreStats ==
    /\ served < MaxStats
    /\ get_user_stats("u1")

SpecScore == InitScore /\ [][ScoreStats]_vars

\* Overlap runs: chats of two users begin and end in any order; a profile
\* update may arrive in between
\* the text the generative call returns for a message
ReplyTo ==
    ("hello" :> "Hello, where to?") @@ ("Cheap hiking please" :> "Here is your plan")

\* Requests that arrive in an overlap run
MaxOverlap == 3

ConcBegin ==
    /\ served + Len(in_flight) < MaxOverlap
    /\ \E user_id \in LookupUsers, msg \in DOMAIN ReplyTo : chat_begin(user_id, msg)

ConcEnd ==
    \E i \in DOMAIN in_flight : chat_end(i, ReplyTo[in_flight[i].message])

ConcUpdate ==
    /\ served + Len(in_flight) < MaxOverlap
    /\ update_user_profile("u1", [name |-> "Asha"])

SpecConc == Init /\ [][ConcBegin \/ ConcEnd \/ ConcUpdate]_vars

\* Voice runs: the voice system was initialised at startup or not; a user
\* enables voice, chats and sends audio
AudioPayloads == {"QUJD", "a", "!!!!"}

RequestLanguages == {"en-US", "en"}

InitVoice ==
    /\ message = <<>>
    /\ intent = "none"
    /\ user_profiles = EmptyDict
    /\ pkl = EmptyDict
    /\ json_files = EmptyDict
    /\ now = 0
    /\ served = 0
    /\ in_flight = <<>>
    /\ voice_system \in {None, "ready"}
    /\ personalized_ai = "ready"
    /\ active_connections = <<>>
    /\ handler = [websocket \in WebSockets |-> "idle"]
    /\ last = [op |-> "init", user |-> "none", req |-> EmptyDict, status |-> 200,
               agent |-> "none", pre |-> EmptyDict, out |-> EmptyDict]

VoiceEnable ==
    /\ served < MaxRequests
    /\ update_user_profile("u1", [voice_enabled |-> TRUE])

VoiceText ==
    /\ served < MaxRequests
    /\ \E msg \in HistMessages, reply \in Replies, language \in RequestLanguages :
           personalized_chat("u1", msg, reply, NoError, language)

VoiceSpeech ==
    /\ served < MaxRequests
    /\ \E audio_data \in AudioPayloads, language \in RequestLanguages,
          text \in {None} \cup HistMessages, reply \in Replies :
           voice_chat("u1", audio_data, language, text, reply, NoError)

SpecVoice == InitVoice /\ [][VoiceEnable \/ VoiceText \/ VoiceSpeech]_vars


\* Learning runs: a user whose profile is set up by profile updates and who
\* sends rating and detailed feedback
LearnUpdates ==
    { [communication_style |-> "casual", interests |-> <<"beach", "Museums">>],
      [communication_style |-> "formal", budget_range |-> "luxury"],
      [communication_style |-> "enthusiastic", interests |-> <<"food">>] }

LearnFeedbacks ==
    { [type |-> "rating", data |-> [rating |-> "1", disliked_tone |-> "too_casual"]],
      [type |-> "rating", data |-> [rating |-> "2", disliked_tone |-> "too_formal"]],
      [type |-> "rating", data |-> [rating |-> "1", disliked_tone |-> "too_enthusiastic"]],
      [type |-> "rating", data |-> [rating |-> "2"]],
      [type |-> "rating",
       data |-> [rating |-> "3", disliked_tone |-> "too_enthusiastic",
                 liked_suggestions |-> <<"Adventure activities">>]],
      [type |-> "detailed", data |-> [feedback_text |-> "Too expensive for me"]],
      [type |-> "detailed", data |-> [feedback_text |-> "Loved the premium rooms"]],
      [type |-> "detailed", data |-> [feedback_text |-> "premium but costly"]],
      [type |-> "detailed", data |-> [feedback_text |-> "Boring beach"]],
      [type |-> "detailed", data |-> [feedback_text |-> "boring Museums"]],
      [type |-> "detailed", data |-> [feedback_text |-> "Nice trip"]] }

\* Requests served in a learning run
MaxLearn == 3

LearnUpdate ==
    /\ served < MaxLearn
    /\ \E updates \in LearnUpdates : update_user_profile("u1", updates)

LearnFeedback ==
    /\ served < MaxLearn
    /\ \E f \in LearnFeedbacks : process_user_feedback("u1", f.type, f.data, None)

SpecLearn == Init /\ [][LearnUpdate \/ LearnFeedback]_vars

\* Trend runs: a user with a fresh profile sends one feedback event after
\* another
TrendFeedbacks ==
    { [type |-> "rating", data |-> [rating |-> "5"]],
      [type |-> "rating", data |-> [rating |-> "1"]],
      [type |-> "thumbs", data |-> [thumbs |-> "down"]],
      [type |-> "detailed", data |-> [feedback_text |-> "Nice trip"]] }

\* Feedback events served in a trend run
MaxTrend == 6

InitTrend ==
    /\ message = <<>>
    /\ intent = "none"
    /\ user_profiles = ("u1" :> UserProfile("u1", EmptyDict))
    /\ pkl = user_profiles
    /\ json_files = user_profiles
    /\ now = 0
    /\ served = 0
    /\ in_flight = <<>>
    /\ voice_system = None
    /\ personalized_ai = "ready"
    /\ active_connections = <<>>
    /\ handler = [websocket \in WebSockets |-> "idle"]
    /\ last = [op |-> "init", user |-> "none", req |-> EmptyDict, status |-> 200,
               agent |-> "none", pre |-> EmptyDict, out |-> EmptyDict]

TrendFeedback ==
    /\ served < MaxTrend
    /\ \E f \in TrendFeedbacks : process_user_feedback("u1", f.type, f.data, None)

SpecTrend == InitTrend /\ [][TrendFeedback]_vars

\* Method runs: update_user_profile is called with dictionaries of any
\* keys, next to feedback events of any type and chats whose generative
\* call returns or fails
CallUpdates ==
    { [name |-> "Asha"],
      [interests |-> <<"beach", "beach">>, travel_history |-> <<[destination |-> "Goa"]>>],
      [user_id |-> "u2"],
      [feedback_history |-> <<>>],
      [satisfaction_scores |-> <<>>] }

CallFeedbacks ==
    { [type |-> "rating", data |-> [rating |-> "5"]],
      [type |-> "rating", data |-> [rating |-> "five"]],
      [type |-> "emoji", data |-> [emoji |-> "smile"]] }

\* Calls served in a method run
MaxCalls == 3

CallUpdate ==
    /\ served < MaxCalls
    /\ \E updates \in CallUpdates : update_user_profile("u1", updates)

CallFeedback ==
    /\ served < MaxCalls
    /\ \E f \in CallFeedbacks : process_user_feedback("u1", f.type, f.data, None)

CallChat ==
    /\ served < MaxCalls
    /\ \E err \in {NoError, "503 unavailable"} :
           personalized_chat("u1", "Cheap hiking please", "Here is your plan", err, "en-US")

SpecCalls == Init /\ [][CallUpdate \/ CallFeedback \/ CallChat]_vars

\* Start-up runs: startup_event initialised the personalised AI or, without
\* GEMINI_API_KEY or on a failure, left it None; a user chats
StartupMessages == ChatMessages \cup FallbackMessages

InitStartup ==
    /\ message = <<>>
    /\ intent = "none"
    /\ user_profiles = EmptyDict
    /\ pkl = EmptyDict
    /\ json_files = EmptyDict
    /\ now = 0
    /\ served = 0
    /\ in_flight = <<>>
    /\ voice_system = None
    /\ personalized_ai \in {None, "ready"}
    /\ active_connections = <<>>
    /\ handler = [websocket \in WebSockets |-> "idle"]
    /\ last = [op |-> "init", user |-> "none", req |-> EmptyDict, status |-> 200,
               agent |-> "none", pre |-> EmptyDict, out |-> EmptyDict]

StartupChat ==
    /\ served < MaxRequests
    /\ \E msg \in StartupMessages :
           personalized_chat("u1", msg, "Here is your plan", NoError, "en-US")

SpecStartup == InitStartup /\ [][StartupChat]_vars

\* Websocket runs: clients open /ws/chat, send messages and go away
\* ConnectionManager.connect, after the accept
connect(websocket) == Append(active_connections, websocket)

\* ConnectionManager.disconnect
disconnect(websocket) == RemoveFirst(active_connections, websocket)

\* Websocket events served in a websocket run
MaxWsEvents == 5

\* websocket_chat is started for a new socket and connects it
WsOpen ==
    /\ served < MaxWsEvents
    /\ \E websocket \in WebSockets :
           /\ handler[websocket] = "idle"
           /\ active_connections' = connect(websocket)
           /\ handler' = [handler EXCEPT ![websocket] = "running"]
    /\ served' = served + 1
    /\ UNCHANGED <<message, intent, now, voice_system, personalized_ai,
                   user_profiles, pkl, json_files, last, in_flight>>

\* one turn of the loop of websocket_chat: the message is answered and the
\* loop goes on, or receive_text raises WebSocketDisconnect and the socket
\* is removed, or json.loads or the agents raise any other exception and
\* the handler reports the error and ends
WsReceive ==
    /\ served < MaxWsEvents
    /\ \E websocket \in WebSockets, outcome \in {"answered", "disconnect", "error"} :
           /\ handler[websocket] = "running"
           /\ IF outcome = "answered" THEN UNCHANGED <<active_connections, handler>>
              ELSE IF outcome = "disconnect" THEN
                  /\ active_connections' = disconnect(websocket)
                  /\ handler' = [handler EXCEPT ![websocket] = "ended"]
              ELSE
                  /\ handler' = [handler EXCEPT ![websocket] = "ended"]
                  /\ UNCHANGED active_connections
    /\ served' = served + 1
    /\ UNCHANGED <<message, intent, now, voice_system, personalized_ai,
                   user_profiles, pkl, json_files, last, in_flight>>

SpecWs == Init /\ [][WsOpen \/ WsReceive]_vars

(***************************************************************************)
(* Properties of the intent classifier (checked under SpecIntent)          *)
(***************************************************************************)
Classified == intent # "none"

MentionsPlace == AnyIn(LocationWords, lower(message))

MentionsDateOrDuration ==
    AnyIn(DateWords, lower(message)) \/ AnyIn(DurationWords, lower(message))

\* C1: a classified message that names a recognised place and carries a
\* date/month token or a duration token is labelled multi_agent, never place.
C1_PlaceWithDateIsMultiAgent ==
    (Classified /\ MentionsPlace /\ MentionsDateOrDuration)
        => (intent = "multi_agent" /\ intent # "place")

\* A mixed-case message naming Goa with a duration word was classified
C1_Witness ==
    /\ Classified
    /\ Contains(<<"G","o","a">>, message)
    /\ Contains(<<"d","a","y","s">>, message)
    /\ intent = "multi_agent"

\* C2: a classified message that names a recognised place and carries no
\* date/month token and no duration token is labelled place, whatever other
\* rule keywords it contains.
C2_PlaceOnlyIsPlace ==
    (Classified /\ MentionsPlace /\ ~MentionsDateOrDuration)
        => intent = "place"

\* A place-only message that also holds planning, booking and navigation
\* keywords was classified as place
C2_Witness ==
    /\ Classified
    /\ MentionsPlace
    /\ ~MentionsDateOrDuration
    /\ AnyIn(PlanningWords, lower(message))
    /\ AnyIn(BookingWords, lower(message))
    /\ intent = "place"

\* The rules for messages without a place, in their priority order
OrderedRules ==
    << [label |-> "planning",     words |-> PlanningWords],
       [label |-> "booking",      words |-> BookingWords],
       [label |-> "poi",          words |-> PoiWords],
       [label |-> "trip_monitor", words |-> TripMonitorWords],
       [label |-> "day_of",       words |-> DayOfWords] >>

MatchingRules ==
    { i \in DOMAIN OrderedRules : AnyIn(OrderedRules[i].words, lower(message)) }

\* C3: a classified message without a recognised place gets the label of
\* the earliest matching rule in the order planning, booking, poi,
\* trip_monitor, day_of, and inspiration when no rule matches (in
\* particular the empty message).
C3_FirstMatchingRuleWins ==
    (Classified /\ ~MentionsPlace) =>
        /\ MatchingRules = {} => intent = "inspiration"
        /\ MatchingRules # {} =>
              \E i \in MatchingRules :
                  /\ \A j \in MatchingRules : i <= j
                  /\ intent = OrderedRules[i].label
        /\ message = <<>> => intent = "inspiration"

\* A message matching the planning, booking and poi rules got the earliest
C3_Witness ==
    /\ Classified
    /\ ~MentionsPlace
    /\ {1, 2, 3} \subseteq MatchingRules
    /\ intent = "planning"

(***************************************************************************)
(* Properties of the profile store                                         *)
(***************************************************************************)
\* C4: no stored profile's conversation_history ever holds more than 20
\* entries.
C4_HistoryAtMostCap ==
    \A u \in DOMAIN user_profiles :
        Len(user_profiles[u].conversation_history) <= 20

\* Python `len(set(list)) == len(list)`
Distinct(list) == \A i, j \in DOMAIN list : i # j => list[i] # list[j]

Elements(list) == { list[i] : i \in DOMAIN list }

\* C5: no stored profile's interests list holds the same value twice.
C5_InterestsDistinct ==
    \A u \in DOMAIN user_profiles : Distinct(user_profiles[u].interests)

LastIsUpdate == last.op = "update"

\* the update served last carried an enum string that is no member value
LastUpdateHasInvalidEnum ==
    /\ LastIsUpdate
    /\ \/ Get(last.req, "personality_type", "adventurous") \notin PersonalityTypes
       \/ Get(last.req, "communication_style", "friendly") \notin CommunicationStyles

C7_InvalidEnumDropped ==
    LastUpdateHasInvalidEnum =>
        /\ last.status = 200
        /\ last.user \in DOMAIN user_profiles
        /\ LET p   == user_profiles[last.user]
               old == IF last.user \in DOMAIN last.pre
                        THEN last.pre[last.user]
                        ELSE UserProfile(last.user, EmptyDict)
               req == last.req
           IN /\ Get(req, "personality_type", "adventurous") \notin PersonalityTypes
                    => p.personality_type = old.personality_type
              /\ Get(req, "communication_style", "friendly") \notin CommunicationStyles
                    => p.communication_style = old.communication_style
              /\ Get(req, "personality_type", "invalid_value") \in PersonalityTypes
                    => p.personality_type = req["personality_type"]
              /\ Get(req, "communication_style", "invalid_value") \in CommunicationStyles
                    => p.communication_style = req["communication_style"]
              /\ p.name = Get(req, "name", old.name)
              /\ p.budget_range = Get(req, "budget_range", old.budget_range)
              /\ Elements(p.interests)
                    = Elements(old.interests) \cup Elements(Get(req, "interests", <<>>))

LastIsDetailedFeedback ==
    IF last.op = "feedback" THEN last.req.type = "detailed" ELSE FALSE

\* C8: across a chat, a profile update or a feedback event other than a
\* 'detailed' one, every interest of a profile is still in it afterwards;
\* an update with an interests list leaves the union of the old and the
\* supplied interests.
C8_InterestsKept ==
    (last.op \in {"chat", "update", "feedback"} /\ ~LastIsDetailedFeedback) =>
        \A u \in DOMAIN last.pre :
            /\ u \in DOMAIN user_profiles
            /\ Elements(last.pre[u].interests) \subseteq Elements(user_profiles[u].interests)
            /\ (last.op = "update" /\ last.user = u /\ last.status = 200) =>
                   Elements(user_profiles[u].interests)
                     = Elements(last.pre[u].interests)
                         \cup Elements(Get(last.req, "interests", <<>>))

\* An update with an interests list was served for a profile that held an
\* interest the list does not name
C8_Witness ==
    /\ LastIsUpdate
    /\ last.status = 200
    /\ last.user \in DOMAIN last.pre
    /\ "interests" \in DOMAIN last.req
    /\ \E x \in Elements(last.pre[last.user].interests) :
           x \notin Elements(last.req["interests"])

\* C9: after every completed request that mutates a profile, loading
\* user_profiles.pkl yields the profiles held in memory.
C9_WriteThrough ==
    (last.op \in {"chat", "update", "feedback"} /\ last.status = 200) =>
        pkl = user_profiles

\* C10: whenever the generative call raises, whatever the failure, the chat
\* is answered by the fallback agent and the caller gets no error.
C10_FailureGetsFallback ==
    (last.op = "chat" /\ last.req.error # NoError) =>
        /\ last.status = 200
        /\ last.agent = "Personalized Fallback Agent"

(***************************************************************************)
(* Properties of the fallback synthesis                                    *)
(***************************************************************************)
LastIsFallbackChat ==
    last.op = "chat" /\ last.req.error # NoError /\ is_quota_error(last.req.error)

\* C11: whatever the profile and the message, the fallback synthesis raises
\* nothing (the chat is answered) and returns a non-empty text, at most 7
\* suggestions and at most 5 booking options.
C11_FallbackAnswers ==
    LastIsFallbackChat =>
        /\ last.status = 200
        /\ \E i \in DOMAIN last.out.response : Len(chars(last.out.response[i])) > 0
        /\ Len(last.out.suggestions) <= 7
        /\ Len(last.out.booking_options) <= 5

\* A fallback answer to a message that names no known destination, with the
\* suggestions cut to seven.
C11_Witness ==
    /\ LastIsFallbackChat
    /\ ~get_destination_intelligence(last.req.message).has_specific_data
    /\ last.status = 200
    /\ Len(last.out.suggestions) = 7

\* a booking list of at most five entries with a flight and a hotel
BookingsOk(bookings) ==
    /\ Len(bookings) <= 5
    /\ \E i \in DOMAIN bookings : bookings[i].type = "flight"
    /\ \E i \in DOMAIN bookings : bookings[i].type = "hotel"

\* C12: the booking list the orchestrator returns for a message it labels
\* multi_agent, and every booking list generate_personalized_bookings
\* returns, has at most five entries, among them a flight and a hotel.
C12_BookingsHaveFlightAndHotel ==
    /\ (last.op = "message" /\ intent = "multi_agent") =>
           BookingsOk(last.out.booking_options)
    /\ (last.op = "chat" /\ last.status = 200) =>
           BookingsOk(last.out.booking_options)

\* A multi_agent message was answered after the user's chat was.
C12_Witness ==
    /\ last.op = "message"
    /\ intent = "multi_agent"
    /\ Len(last.out.booking_options) = 5
    /\ served = 1

(***************************************************************************)
(* Properties of lookups and feedback                                      *)
(***************************************************************************)
LastIsLookupOfUnknown ==
    /\ last.op \in {"stats", "feedback"}
    /\ last.user \notin DOMAIN last.pre

\* C13: get_user_stats and process_user_feedback for a user id without a
\* profile answer not found (404) and leave the profile store as it was: no
\* profile is created, none is modified.
C13_UnknownUserNotFound ==
    LastIsLookupOfUnknown =>
        /\ last.status = 404
        /\ user_profiles = last.pre

\* The statistics of an unknown user were asked for while another user had a
\* profile.
C13_Witness ==
    /\ LastIsLookupOfUnknown
    /\ last.op = "stats"
    /\ last.pre # EmptyDict
    /\ last.status = 404

LastIsHighRating ==
    /\ last.op = "feedback"
    /\ last.req.type = "rating"
    /\ last.status = 200
    /\ float(Get(last.req.data, "rating", "3")) >= 4

\* number of times x is in list
Count(x, list) == Cardinality({ i \in DOMAIN list : list[i] = x })

\* C14: after a rating of 4 or more the rating is appended to
\* satisfaction_scores, and every keyword among adventure, luxury, culture
\* that occurs in one of the liked suggestions is in interests, once if it
\* was not there before.
C14_HighRatingReinforces ==
    LastIsHighRating =>
        LET before == last.pre[last.user]
            after  == user_profiles[last.user]
            liked  == Get(last.req.data, "liked_suggestions", <<>>)
        IN /\ after.satisfaction_scores =
                  Append(before.satisfaction_scores, float(Get(last.req.data, "rating", "3")))
           /\ \A kw \in {"adventure", "luxury", "culture"} :
                  /\ (\E i \in DOMAIN liked : Contains(chars(kw), lower(chars(liked[i]))))
                         => InList(kw, after.interests)
                  /\ Count(kw, after.interests) <= Count(kw, before.interests)
                         \/ Count(kw, after.interests) = 1

LastIsThumbs ==
    /\ last.op = "feedback"
    /\ last.req.type = "thumbs"
    /\ last.status = 200

\* the profile a rating event with the payload of the last request and the
\* rating 4 (thumbs up) or 2 (any other thumbs) leaves
AsRating ==
    LET data    == last.req.data
        rating  == IF Get(data, "thumbs", None) = "up" THEN "4" ELSE "2"
        entered == [last.pre[last.user] EXCEPT
                      !.feedback_history =
                          Append(@, [timestamp |-> now, type |-> "rating", data |-> data,
                                     response_id |-> last.req.response_id])]
    IN _update_learning_insights(
           feedback_branch(entered, "rating", Put(data, "rating", rating)).profile)

\* C15: a thumbs event leaves the profile as the rating event with rating 4
\* (up) or 2 (down) and the same payload does: the same score appended, the
\* same interests and communication style, the same pattern records.
C15_ThumbsAsRating ==
    LastIsThumbs =>
        LET after == user_profiles[last.user] IN
        /\ after.satisfaction_scores = AsRating.satisfaction_scores
        /\ after.interests = AsRating.interests
        /\ after.communication_style = AsRating.communication_style
        /\ \A key \in {"successful_patterns", "unsuccessful_patterns"} :
               Len(Get(after.learning_insights, key, <<>>))
                   = Len(Get(AsRating.learning_insights, key, <<>>))

\* the profiles that differ from p in one field set or one entry added,
\* last_interaction unchanged
FilledIn(p) ==
    { [p EXCEPT !.name = "Asha"],
      [p EXCEPT !.age_group = "26-35"],
      [p EXCEPT !.budget_range = "luxury"],
      [p EXCEPT !.interests = Append(@, "nature")],
      [p EXCEPT !.travel_history = Append(@, [destination |-> "Kerala"])],
      [p EXCEPT !.conversation_history =
                    Append(@, [type |-> "user", message |-> "hello", timestamp |-> 0])] }

\* C16: the personalization score lies in [0,1] (0..100 hundredths) and,
\* with last_interaction and the day unchanged, does not decrease when a
\* name, age group or budget is set or an interest, trip or conversation
\* entry is added.
C16_ScoreBoundedAndMonotone ==
    (last.op = "stats" /\ last.status = 200) =>
        /\ last.out.profile_completeness \in 0..100
        /\ \A q \in FilledIn(user_profiles[last.user]) :
               last.out.profile_completeness <= calculate_personalization_score(q)

\* The score of a full profile was read: every term at its cap.
C16_Witness ==
    /\ last.op = "stats"
    /\ last.status = 200
    /\ last.out.profile_completeness = 100
    /\ Len(user_profiles[last.user].interests) = 5

(***************************************************************************)
(* Properties of overlapping requests                                      *)
(***************************************************************************)
\* C17: requests for one user do not interleave: while a chat is between
\* recording its user message and recording the AI reply, the profile is as
\* that chat left it, and conversation_history holds after every user
\* message but the last the reply to it (user1, ai1, user2, ai2).
C17_RequestsDoNotInterleave ==
    /\ \A i \in DOMAIN in_flight :
           user_profiles[in_flight[i].user] = in_flight[i].seen
    /\ \A user_id \in DOMAIN user_profiles :
           LET history == user_profiles[user_id].conversation_history IN
           \A k \in 1..(Len(history) - 1) :
               history[k].type = "user" =>
                   /\ history[k + 1].type = "ai"
                   /\ history[k + 1].message = ReplyTo[history[k].message]

(***************************************************************************)
(* Properties of the voice endpoint                                        *)
(***************************************************************************)
\* C18: with a voice system, a voice request whose audio_data does not
\* decode as base64 is answered 400 and nothing of the profile store has
\* changed.
C18_MalformedAudioRejected ==
    (last.op = "voice" /\ voice_system # None /\ b64decode_raises(last.req.audio_data)) =>
        /\ last.status = 400
        /\ user_profiles = last.pre

\* C19: without a voice system a voice request is answered 503, and a chat
\* of a user with voice enabled is answered 200 when the voice system is
\* absent or returns no audio.
C19_VoiceUnavailable ==
    /\ (last.op = "voice" /\ voice_system = None) => last.status = 503
    /\ ( /\ last.op = "chat"
         /\ last.user \in DOMAIN last.pre
         /\ last.pre[last.user].voice_enabled
         /\ last.req.error = NoError
         /\ (voice_system = None \/ Get(last.out, "voice_audio_data", None) = None) )
           => last.status = 200

\* the history of the user of the last chat before the request, with the
\* user entry the request appends
C20_Appended ==
    Append(last.pre[last.user].conversation_history,
           [type |-> "user", message |-> last.req.message, timestamp |-> now])

\* the history of the user of the last chat as the truncation left it: the
\* stored history without the AI entry an answered request appends afterwards
C20_Kept ==
    LET after == user_profiles[last.user].conversation_history IN
    IF last.agent = "Personalized Gemini AI"
      THEN SubSeq(after, 1, Len(after) - 1)
      ELSE after

Processed(feedback_type) ==
    /\ last.op = "feedback"
    /\ last.status = 200
    /\ last.req.type = feedback_type

\* the profile of the user of the last request before and after it
Before == last.pre[last.user]

After == user_profiles[last.user]

\* learning_insights[key] of the profile p, the empty list when missing
Patterns(p, key) == Get(p.learning_insights, key, <<>>)

\* the rating of the last request
Rating == float(Get(last.req.data, "rating", "3"))

\* a rating strictly between 2 and 4 changes neither interests nor
\* communication_style and records no pattern
C21_MiddleRatingIdle ==
    (Processed("rating") /\ Rating > 2 /\ Rating < 4) =>
        /\ After.interests = Before.interests
        /\ After.communication_style = Before.communication_style
        /\ Patterns(After, "unsuccessful_patterns") = Patterns(Before, "unsuccessful_patterns")
        /\ Patterns(After, "successful_patterns") = Patterns(Before, "successful_patterns")

\* C21 as stated: every rating event with rating <= 2 changes the
\* communication_style and appends exactly one entry to
\* unsuccessful_patterns; a rating strictly between 2 and 4 changes neither
\* interests nor communication_style and records no pattern.
C21_LowRatingAdjusts ==
    /\ (Processed("rating") /\ Rating <= 2) =>
          /\ After.communication_style # Before.communication_style
          /\ Len(Patterns(After, "unsuccessful_patterns"))
                = Len(Patterns(Before, "unsuccessful_patterns")) + 1
    /\ C21_MiddleRatingIdle

\* C21 amended: every rating event with rating <= 2 appends exactly one
\* entry to unsuccessful_patterns, after the old ones, and sets
\* communication_style to professional for the tone too_enthusiastic or for
\* too_casual on a casual style, to friendly for too_formal on a formal
\* style, and leaves it otherwise; a rating strictly between 2 and 4 changes
\* neither interests nor communication_style and records no pattern.
C21_LowRatingRecorded ==
    /\ (Processed("rating") /\ Rating <= 2) =>
          LET tone == Get(last.req.data, "disliked_tone", None)
              old  == Before.communication_style
          IN /\ After.communication_style =
                    (IF tone = "too_enthusiastic" THEN "professional"
                     ELSE IF tone = "too_casual" /\ old = "casual" THEN "professional"
                     ELSE IF tone = "too_formal" /\ old = "formal" THEN "friendly"
                     ELSE old)
             /\ Len(Patterns(After, "unsuccessful_patterns"))
                   = Len(Patterns(Before, "unsuccessful_patterns")) + 1
             /\ SubSeq(Patterns(After, "unsuccessful_patterns"), 1,
                       Len(Patterns(Before, "unsuccessful_patterns")))
                   = Patterns(Before, "unsuccessful_patterns")
    /\ C21_MiddleRatingIdle

\* a low rating with the tone too_casual moved a casual style to
\* professional and recorded a second pattern
C21_Witness ==
    /\ Processed("rating")
    /\ Rating <= 2
    /\ Get(last.req.data, "disliked_tone", None) = "too_casual"
    /\ Before.communication_style = "casual"
    /\ After.communication_style = "professional"
    /\ Len(Patterns(After, "unsuccessful_patterns")) = 2


\* the text of the last detailed feedback, as sent and in lower case
FeedbackText == chars(Get(last.req.data, "feedback_text", ""))

\* C22: after a detailed feedback event, a text containing 'too expensive'
\* leaves budget_range 'budget', a text containing 'premium' or 'luxurious'
\* leaves it 'luxury', every interest named in a text that contains 'boring'
\* is gone from interests, and the interests the text does not name are
\* kept.
C22_DetailedFeedbackApplied ==
    Processed("detailed") =>
        /\ Contains(chars("too expensive"), lower(FeedbackText))
             => After.budget_range = "budget"
        /\ AnyIn({"premium", "luxurious"}, lower(FeedbackText))
             => After.budget_range = "luxury"
        /\ \A i \in DOMAIN Before.interests :
               IF Contains(chars(Before.interests[i]), FeedbackText)
                 THEN Contains(chars("boring"), lower(FeedbackText))
                        => ~InList(Before.interests[i], After.interests)
                 ELSE Contains(chars(Before.interests[i]), lower(FeedbackText))
                        \/ InList(Before.interests[i], After.interests)

\* learning_insights['satisfaction_trend'] of the profile p describes its
\* satisfaction scores: the mean of the last min(5, n), whether the newest of
\* that window is greater than its oldest, and n
TrendDescribes(p) ==
    LET n      == Len(p.satisfaction_scores)
        w      == Min(5, n)
        window == SubSeq(p.satisfaction_scores, n - w + 1, n)
        trend  == p.learning_insights["satisfaction_trend"]
    IN /\ "satisfaction_trend" \in DOMAIN p.learning_insights
       /\ trend.average = [num |-> SumSeq(window), den |-> w]
       /\ trend.improving = (w >= 2 /\ window[w] > window[1])
       /\ trend.total_feedback_count = n

\* C23 as stated: after every processed feedback event of any type
\* satisfaction_trend is present and describes the current scores.
C23_TrendAfterEveryEvent ==
    (last.op = "feedback" /\ last.status = 200) => TrendDescribes(After)

\* C23 amended: after every processed feedback event of any type on a
\* profile that has at least one satisfaction score, satisfaction_trend is
\* present and describes the current scores.
C23_TrendOfScores ==
    (last.op = "feedback" /\ last.status = 200 /\ Len(After.satisfaction_scores) > 0)
        => TrendDescribes(After)

\* the sixth score arrived: the window no longer holds the first score, and
\* the trend improves although the newest score is below the first one
C23_Witness ==
    /\ last.op = "feedback"
    /\ last.status = 200
    /\ Len(After.satisfaction_scores) = 6
    /\ After.satisfaction_scores[6] < After.satisfaction_scores[1]
    /\ After.learning_insights["satisfaction_trend"].improving

(***************************************************************************)
(* Properties of the profile across requests and method calls              *)
(***************************************************************************)
\* the list a is the beginning of the list b
IsPrefix(a, b) == Len(a) <= Len(b) /\ SubSeq(b, 1, Len(a)) = a

\* C24: across a feedback, a chat or a profile update with any keys the
\* lists feedback_history, satisfaction_scores and travel_history of the
\* profile only grow at the end, and a processed feedback event extends
\* feedback_history by exactly one entry.
C24_HistoriesAppendOnly ==
    (last.op \in {"feedback", "chat", "update"} /\ last.user \in DOMAIN last.pre) =>
        /\ IsPrefix(Before.feedback_history, After.feedback_history)
        /\ IsPrefix(Before.satisfaction_scores, After.satisfaction_scores)
        /\ IsPrefix(Before.travel_history, After.travel_history)
        /\ (last.op = "feedback" /\ last.status = 200)
             => Len(After.feedback_history) = Len(Before.feedback_history) + 1

\* C25: every event stored in a profile's feedback_history has one of the
\* types rating, thumbs, detailed, correction.
C25_FeedbackTypesKnown ==
    \A u \in DOMAIN user_profiles :
        \A i \in DOMAIN user_profiles[u].feedback_history :
            user_profiles[u].feedback_history[i].type
                \in {"rating", "thumbs", "detailed", "correction"}

\* C26: when the personalised AI was never initialised, a chat is answered
\* 200 by the keyword orchestrator: the agent is the label detect_intent
\* gives the message, personalization_score is 0.3 (30 hundredths) and
\* user_insights marks the fallback mode.
C26_ChatWithoutPersonalizedAI ==
    (last.op = "chat" /\ personalized_ai = None) =>
        LET label == detect_intent(chars(last.req.message)) IN
        /\ last.status = 200
        /\ last.agent = (IF label = "multi_agent" THEN "Multi-Agent System"
                         ELSE text_of(title(chars(label))))
        /\ Get(last.out, "personalization_score", None) = 30
        /\ Get(last.out, "user_insights", EmptyDict) = [fallback_mode |-> TRUE]

\* C27: a chat or feedback request that ends with an error leaves the
\* profile store exactly as it was before the request.
C27_ErrorLeavesProfile ==
    (last.op \in {"chat", "feedback"} /\ last.status = 500) => user_profiles = last.pre

\* C28: each profile stored in user_profiles under the key k has user_id k.
C28_KeyIsUserId ==
    \A k \in DOMAIN user_profiles : user_profiles[k].user_id = k

\* C29: update_user_profile for a user id without profile leaves a profile
\* that creating the default profile and then updating it can leave.
C29_UpdateCreatesLikeUpdate ==
    (last.op = "update" /\ last.user \notin DOMAIN last.pre) =>
        /\ last.status = 200
        /\ \E interests \in merge_interests(UserProfile(last.user, EmptyDict), last.req) :
               After = apply_updates(UserProfile(last.user, EmptyDict), last.req, interests)

\* C30: active_connections lists exactly the websockets whose /ws/chat
\* handler is still running.
C30_ListedWhileRunning ==
    \A websocket \in WebSockets :
        InList(websocket, active_connections) <=> handler[websocket] = "running"

====
